---- MODULE Spec2Model ----
(***************************************************************************)
(* A model of the unredact package: redaction-box detection                *)
(* (pdf_redactions.py), span extraction and font resolution (pdf_info.py), *)
(* the test-document generator (pdf_test_data.py) and width computation    *)
(* (widths.py).                                                            *)
(*                                                                         *)
(* Lengths are exact rationals kept as integers in units of 1/25 point:    *)
(* at 150 dpi one pixel is 72/150 pt = 12/25 pt = 12 units, one point is   *)
(* 25 units.  Pages are multiples of 12pt wide and high (US letter,        *)
(* 612x792pt, is one), so the raster is a whole number of pixels and       *)
(* scale_x = scale_y = 0.48pt exactly, as in the float computation.        *)
(* Strings whose characters matter are sequences of one-character strings. *)
(***************************************************************************)
EXTENDS Integers, Sequences, FiniteSets, TLC

VARIABLES
  op,        \* which API function this behaviour calls
  pc,        \* position inside the call
  doc,       \* what the document engine makes of pdf_bytes
  handle,    \* the fitz document handle: "none", "open", "closed"
  results,   \* find_redactions: the local list `results`
  annotOut,  \* return value of _find_annotation_redactions
  vecOut,    \* return value of _find_vector_redactions
  imgOut,    \* return value of _find_image_redactions
  spans,     \* extract_font_info: the local list `spans`
  returned,  \* the list returned to the caller (once pc = "done")
  rt,        \* create_test_pdf round trip: family, size, files on disk
  fontName,  \* _match_font: the raw name given
  matched,   \* _match_font: the value returned
  wcall,     \* calculate_width: the arguments of the latest call
  wret,      \* calculate_width: the value it returned
  wprev,     \* calculate_width: arguments and result of the call before
  fc,        \* FontCache(fonts): the construction in progress and its outcome
  net,       \* cache.py and the by-URL endpoints: bucket, requests, the call
  scan       \* _find_image_redactions: the row loop's locals, row by row

vars == <<op, pc, doc, handle, results, annotOut, vecOut, imgOut, spans,
          returned, rt, fontName, matched, wcall, wret, wprev, fc, net, scan>>

docVars == <<op, pc, doc, handle, results, annotOut, vecOut, imgOut, spans, returned>>
fontVars == <<rt, fontName, matched>>
widthVars == <<wcall, wret, wprev>>
otherVars == <<fc, net, scan>>

None == "None"

(***************************************************************************)
(* Bounds                                                                  *)
(***************************************************************************)
MaxPages == 2

(***************************************************************************)
(* Program constants                                                       *)
(***************************************************************************)
Dpi == 150
dark_threshold == 80
min_height_pt == 5
min_width_pt == 15
run_tolerance == 3
min_rows == 5
VectorMinWidth == 15
VectorMinHeight == 5
NearBlack == 10            \* 0.1, in hundredths of the channel range
PDF_ANNOT_REDACT == 12

PtPerInch == 72
UnitsPerPt == Dpi \div 6          \* 25 units in a point
UnitsPerPx == PtPerInch \div 6    \* 12 units in a pixel at 150 dpi

Abs(n) == IF n < 0 THEN -n ELSE n

(***************************************************************************)
(* RedactionBox                                                            *)
(***************************************************************************)
RedactionBox(page, x0, y0, x1, y1) == [page |-> page, bbox |-> <<x0, y0, x1, y1>>]
BoxWidth(b) == b.bbox[3] - b.bbox[1]
BoxHeight(b) == b.bbox[4] - b.bbox[2]

\* A for loop: the locals st after iterations lo .. hi-1 of the body Body(i, st),
\* run in order.  The range is halved and the first half is evaluated before
\* the second, which keeps the evaluation shallow.
RECURSIVE ForRange(_, _, _, _)
ForRange(Body(_, _), lo, hi, st) ==
  IF hi <= lo THEN st
  ELSE IF hi = lo + 1 THEN Body(lo, st)
  ELSE LET mid == (lo + hi) \div 2
           first == ForRange(Body, lo, mid, st)
       IN IF first = first THEN ForRange(Body, mid, hi, first) ELSE st

RECURSIVE Concat(_)
Concat(ss) == IF ss = <<>> THEN <<>> ELSE Head(ss) \o Concat(Tail(ss))

(***************************************************************************)
(* _find_annotation_redactions                                             *)
(***************************************************************************)
PageAnnotationRedactions(page_num, page) ==
  LET keep == SelectSeq(page.annots, LAMBDA a : a.type = PDF_ANNOT_REDACT)
  IN [i \in 1..Len(keep) |->
        RedactionBox(page_num, keep[i].rect[1], keep[i].rect[2],
                     keep[i].rect[3], keep[i].rect[4])]

find_annotation_redactions(d) ==
  Concat([p \in 1..Len(d) |-> PageAnnotationRedactions(p - 1, d[p])])

(***************************************************************************)
(* _find_vector_redactions                                                 *)
(***************************************************************************)
IsNearBlack(fill) ==
  /\ fill # None
  /\ \A i \in 1..Len(fill) : fill[i] <= NearBlack

VectorQualifies(drawing) ==
  /\ IsNearBlack(drawing.fill)
  /\ drawing.rect[3] - drawing.rect[1] >= VectorMinWidth * UnitsPerPt
  /\ drawing.rect[4] - drawing.rect[2] >= VectorMinHeight * UnitsPerPt

PageVectorRedactions(page_num, page) ==
  LET keep == SelectSeq(page.drawings, VectorQualifies)
  IN [i \in 1..Len(keep) |->
        RedactionBox(page_num, keep[i].rect[1], keep[i].rect[2],
                     keep[i].rect[3], keep[i].rect[4])]

find_vector_redactions(d) ==
  Concat([p \in 1..Len(d) |-> PageVectorRedactions(p - 1, d[p])])

(***************************************************************************)
(* Page geometry and rendering.  A page's visible content is a list of     *)
(* bands <<number of rows, dark intervals, intensity>> from top to bottom. *)
(***************************************************************************)
PageSizePt == <<36, 12>>
PageRectW == PageSizePt[1] * UnitsPerPt
PageRectH == PageSizePt[2] * UnitsPerPt
PixWidth == PageRectW \div UnitsPerPx      \* 75 pixels
PixHeight == PageRectH \div UnitsPerPx     \* 25 rows

White == 255

\* one raster row with the half-open pixel intervals `runs` at intensity v
Row(runs, v) ==
  [x \in 1..PixWidth |->
     IF \E i \in 1..Len(runs) : runs[i][1] < x /\ x <= runs[i][2] THEN v ELSE White]

\* a raster from bands <<number of rows, runs, intensity>>, top to bottom
Samples(bands) ==
  Concat([b \in 1..Len(bands) |->
            Concat([k \in 1..bands[b][1] |-> Row(bands[b][2], bands[b][3])])])

\* page.get_pixmap(dpi=dpi, colorspace=fitz.csGRAY): the page content, given as
\* bands, rendered to one byte per pixel, row after row
get_pixmap(page) ==
  [width |-> page.rect_w \div UnitsPerPx,
   height |-> page.rect_h \div UnitsPerPx,
   samples |-> Samples(page.bands)]

(***************************************************************************)
(* _get_dark_runs: x, in_run, start and runs are the loop's locals;        *)
(* samples is 0-indexed in the code, 1-indexed here.                       *)
(***************************************************************************)
\* a pixel test that also counts intensity = threshold as dark
is_dark_inclusive(v, threshold) == v <= threshold

is_dark(v, threshold) == v < threshold

\* One iteration of `for x in range(width)`; st holds the locals in_run,
\* start and runs.
dark_runs_step(samples, offset, threshold, min_width, x, st) ==
  IF is_dark(samples[offset + x + 1], threshold)
  THEN IF ~st.in_run
       THEN [st EXCEPT !.in_run = TRUE, !.start = x]
       ELSE st
  ELSE IF st.in_run
       THEN [st EXCEPT !.in_run = FALSE,
                       !.runs = IF x - st.start >= min_width
                                THEN Append(st.runs, <<st.start, x>>)
                                ELSE st.runs]
       ELSE st

\* a scan that forgets the run still open when the row ends
get_dark_runs_inner(samples, y, width, threshold, min_width) ==
  ForRange(LAMBDA x, st : dark_runs_step(samples, y * width, threshold, min_width, x, st),
           0, width, [in_run |-> FALSE, start |-> 0, runs |-> <<>>]).runs

get_dark_runs(samples, y, width, threshold, min_width) ==
  LET offset == y * width
      end == ForRange(LAMBDA x, st : dark_runs_step(samples, offset, threshold,
                                                    min_width, x, st),
                      0, width, [in_run |-> FALSE, start |-> 0, runs |-> <<>>])
  IN IF end.in_run /\ width - end.start >= min_width
     THEN Append(end.runs, <<end.start, width>>)
     ELSE end.runs

(***************************************************************************)
(* _runs_match                                                             *)
(***************************************************************************)
\* a comparison without `or not a`: two empty run-sets match
runs_match_empty(a, b, tolerance) ==
  IF Len(a) # Len(b)
  THEN FALSE
  ELSE \A i \in 1..Len(a) :
         /\ Abs(a[i][1] - b[i][1]) <= tolerance
         /\ Abs(a[i][2] - b[i][2]) <= tolerance

\* a comparison without the length test: zip() pairs the runs up to the
\* shorter list, so run-sets of different sizes can match
runs_match_zip(a, b, tolerance) ==
  IF a = <<>>
  THEN FALSE
  ELSE \A i \in 1..(IF Len(a) < Len(b) THEN Len(a) ELSE Len(b)) :
         /\ Abs(a[i][1] - b[i][1]) <= tolerance
         /\ Abs(a[i][2] - b[i][2]) <= tolerance

runs_match(a, b, tolerance) ==
  IF Len(a) # Len(b) \/ a = <<>>
  THEN FALSE
  ELSE \A i \in 1..Len(a) :
         /\ Abs(a[i][1] - b[i][1]) <= tolerance
         /\ Abs(a[i][2] - b[i][2]) <= tolerance

(***************************************************************************)
(* _find_image_redactions                                                  *)
(***************************************************************************)
\* a closing rule that wants more than min_rows rows
close_rects_strict(page_num, prev_runs, rect_start_y, y_end, scale_x, scale_y) ==
  IF prev_runs # <<>> /\ (y_end - rect_start_y) > min_rows
  THEN [i \in 1..Len(prev_runs) |->
          RedactionBox(page_num,
                       prev_runs[i][1] * scale_x, rect_start_y * scale_y,
                       prev_runs[i][2] * scale_x, y_end * scale_y)]
  ELSE <<>>

\* a closing rule whose boxes also cover the row that closed the region
close_rects_through(page_num, prev_runs, rect_start_y, y_end, scale_x, scale_y) ==
  IF prev_runs # <<>> /\ (y_end - rect_start_y) >= min_rows
  THEN [i \in 1..Len(prev_runs) |->
          RedactionBox(page_num,
                       prev_runs[i][1] * scale_x, rect_start_y * scale_y,
                       prev_runs[i][2] * scale_x, (y_end + 1) * scale_y)]
  ELSE <<>>

\* "Close previous rectangles" / "Close final rectangles": the boxes appended
\* when the open run-set prev_runs, started at rect_start_y, ends at row y_end.
close_rects(page_num, prev_runs, rect_start_y, y_end, scale_x, scale_y) ==
  IF prev_runs # <<>> /\ (y_end - rect_start_y) >= min_rows
  THEN [i \in 1..Len(prev_runs) |->
          RedactionBox(page_num,
                       prev_runs[i][1] * scale_x, rect_start_y * scale_y,
                       prev_runs[i][2] * scale_x, y_end * scale_y)]
  ELSE <<>>

\* a row loop that restarts the count only after a region long enough to be
\* emitted: the rows of a shorter region are carried over to the next one
scan_row_resume(page_num, pix, scale_x, scale_y, min_run_px, y, st) ==
  LET runs == get_dark_runs(pix.samples, y, pix.width, dark_threshold, min_run_px)
  IN IF runs_match(runs, st.prev_runs, run_tolerance)
     THEN st
     ELSE [prev_runs |-> runs,
           rect_start_y |-> IF y - st.rect_start_y >= min_rows THEN y ELSE st.rect_start_y,
           out |-> st.out \o close_rects(page_num, st.prev_runs, st.rect_start_y, y,
                                         scale_x, scale_y)]

\* a row loop that replaces the stored run-set by every matching row's
scan_row_follow(page_num, pix, scale_x, scale_y, min_run_px, y, st) ==
  LET runs == get_dark_runs(pix.samples, y, pix.width, dark_threshold, min_run_px)
  IN IF runs_match(runs, st.prev_runs, run_tolerance)
     THEN [st EXCEPT !.prev_runs = runs]
     ELSE [prev_runs |-> runs,
           rect_start_y |-> y,
           out |-> st.out \o close_rects(page_num, st.prev_runs, st.rect_start_y, y,
                                         scale_x, scale_y)]

\* One iteration of `for y in range(h)`; st holds the locals prev_runs and
\* rect_start_y and out, the boxes this page has appended to results so far.
scan_row(page_num, pix, scale_x, scale_y, min_run_px, y, st) ==
  LET runs == get_dark_runs(pix.samples, y, pix.width, dark_threshold, min_run_px)
  IN IF runs_match(runs, st.prev_runs, run_tolerance)
     THEN st
     ELSE [prev_runs |-> runs,
           rect_start_y |-> y,
           out |-> st.out \o close_rects(page_num, st.prev_runs, st.rect_start_y, y,
                                         scale_x, scale_y)]

PageImageRedactions(page_num, page) ==
  LET pix == get_pixmap(page)
      scale_x == page.rect_w \div pix.width
      scale_y == page.rect_h \div pix.height
      min_run_px == (min_width_pt * UnitsPerPt) \div scale_x
      end == ForRange(LAMBDA y, st : scan_row(page_num, pix, scale_x, scale_y,
                                              min_run_px, y, st),
                      0, pix.height,
                      [prev_runs |-> <<>>, rect_start_y |-> 0, out |-> <<>>])
  IN end.out \o close_rects(page_num, end.prev_runs, end.rect_start_y, pix.height,
                            scale_x, scale_y)

\* the raster detector without its final minimum-height filter
find_image_redactions_unfiltered(d) ==
  Concat([p \in 1..Len(d) |-> PageImageRedactions(p - 1, d[p])])

find_image_redactions(d) ==
  SelectSeq(Concat([p \in 1..Len(d) |-> PageImageRedactions(p - 1, d[p])]),
            LAMBDA r : BoxHeight(r) >= min_height_pt * UnitsPerPt)

(***************************************************************************)
(* results.sort(key=lambda r: (r.page, r.bbox[1], r.bbox[0])): a stable    *)
(* sort, here a stable insertion sort.                                     *)
(***************************************************************************)
\* a sort key that stops at the top edge
SortKeyPageTop(r) == <<r.page, r.bbox[2], 0>>

SortKey(r) == <<r.page, r.bbox[2], r.bbox[1]>>

KeyLeq(k1, k2) ==
  \/ k1[1] < k2[1]
  \/ k1[1] = k2[1] /\ k1[2] < k2[2]
  \/ k1[1] = k2[1] /\ k1[2] = k2[2] /\ k1[3] <= k2[3]

RECURSIVE InsertByKey(_, _)
InsertByKey(s, r) ==
  IF s = <<>> THEN <<r>>
  ELSE IF KeyLeq(SortKey(s[Len(s)]), SortKey(r))
       THEN Append(s, r)
       ELSE Append(InsertByKey(SubSeq(s, 1, Len(s) - 1), r), s[Len(s)])

Range(s) == {s[i] : i \in 1..Len(s)}

\* a sort that goes through a set, as sorted(set(results), key=...) would
RECURSIVE sort_results_unique(_)
sort_results_unique(s) ==
  IF s = <<>> THEN <<>>
  ELSE LET rest == sort_results_unique(SubSeq(s, 1, Len(s) - 1))
       IN IF s[Len(s)] \in Range(rest) THEN rest ELSE InsertByKey(rest, s[Len(s)])

RECURSIVE sort_results(_)
sort_results(s) ==
  IF s = <<>> THEN <<>>
  ELSE InsertByKey(sort_results(SubSeq(s, 1, Len(s) - 1)), s[Len(s)])

(***************************************************************************)
(* _FONT_NAME_MAP and _match_font                                          *)
(***************************************************************************)
FONT_NAME_MAP ==
  << <<<<"l","i","b","e","r","a","t","i","o","n"," ","s","a","n","s">>, "arial">>,
     <<<<"l","i","b","e","r","a","t","i","o","n"," ","m","o","n","o">>, "courier new">>,
     <<<<"l","i","b","e","r","a","t","i","o","n"," ","s","e","r","i","f">>, "times new roman">>,
     <<<<"a","r","i","a","l">>, "arial">>,
     <<<<"a","r","i","m","o">>, "arial">>,
     <<<<"h","e","l","v","e","t","i","c","a">>, "helvetica">>,
     <<<<"c","a","l","i","b","r","i">>, "calibri">>,
     <<<<"c","a","r","l","i","t","o">>, "calibri">>,
     <<<<"c","a","m","b","r","i","a">>, "cambria">>,
     <<<<"c","a","l","a","d","e","a">>, "cambria">>,
     <<<<"c","o","u","r","i","e","r">>, "courier new">>,
     <<<<"c","o","u","s","i","n","e">>, "courier new">>,
     <<<<"t","i","m","e","s">>, "times new roman">>,
     <<<<"t","i","n","o","s">>, "times new roman">> >>

UpperCase == <<"A","B","C","D","E","F","G","H","I","J","K","L","M",
               "N","O","P","Q","R","S","T","U","V","W","X","Y","Z">>
LowerCase == <<"a","b","c","d","e","f","g","h","i","j","k","l","m",
               "n","o","p","q","r","s","t","u","v","w","x","y","z">>

\* str.lower(), character by character
LowerChar(c) ==
  IF \E i \in 1..Len(UpperCase) : UpperCase[i] = c
  THEN LowerCase[CHOOSE i \in 1..Len(UpperCase) : UpperCase[i] = c]
  ELSE c
Lower(s) == [i \in 1..Len(s) |-> LowerChar(s[i])]

\* Python's `sub in s`
Contains(s, sub) ==
  \E k \in 0..(Len(s) - Len(sub)) : \A i \in 1..Len(sub) : s[k + i] = sub[i]

\* The for loop of _match_font from rule i on.
RECURSIVE match_font_from(_, _)
match_font_from(lower, i) ==
  IF i > Len(FONT_NAME_MAP) THEN None
  ELSE IF Contains(lower, FONT_NAME_MAP[i][1]) THEN FONT_NAME_MAP[i][2]
       ELSE match_font_from(lower, i + 1)

\* a resolver in which the last matching rule wins
RECURSIVE match_font_last_from(_, _)
match_font_last_from(lower, i) ==
  IF i < 1 THEN None
  ELSE IF Contains(lower, FONT_NAME_MAP[i][1]) THEN FONT_NAME_MAP[i][2]
       ELSE match_font_last_from(lower, i - 1)

match_font_last(pdf_font_name) ==
  match_font_last_from(Lower(pdf_font_name), Len(FONT_NAME_MAP))

match_font(pdf_font_name) == match_font_from(Lower(pdf_font_name), 1)

(***************************************************************************)
(* extract_font_info                                                       *)
(***************************************************************************)
IsBlank(c) == c = " "

IsSpace(c) == c \in {" ", "\t", "\n"}

\* str.strip()
RECURSIVE LStrip(_)
LStrip(s) == IF s # <<>> /\ IsSpace(s[1]) THEN LStrip(Tail(s)) ELSE s
RECURSIVE RStrip(_)
RStrip(s) == IF s # <<>> /\ IsSpace(s[Len(s)]) THEN RStrip(SubSeq(s, 1, Len(s) - 1)) ELSE s
Strip(s) == RStrip(LStrip(s))

\* Python's round(num/den): nearest integer, ties to the even one
PyRound(num, den) ==
  LET q == num \div den
      r == num % den
  IN IF 2 * r < den THEN q
     ELSE IF 2 * r > den THEN q + 1
     ELSE IF q % 2 = 0 THEN q ELSE q + 1

FlagSet(flags, mask) == (flags \div mask) % 2 = 1

\* span sizes are in hundredths of a point
FontInfo(span) ==
  [name |-> span.font,
   size |-> PyRound(span.size, 100),
   bold |-> FlagSet(span.flags, 16),
   italic |-> FlagSet(span.flags, 2),
   monospaced |-> FlagSet(span.flags, 8),
   serif |-> FlagSet(span.flags, 4),
   color |-> span.color,
   matched_font |-> match_font(span.font)]

TextSpan(page_num, span) ==
  [text |-> span.text, font |-> FontInfo(span), page |-> page_num, bbox |-> span.bbox]

LineSpans(page_num, line) ==
  LET keep == SelectSeq(line.spans, LAMBDA sp : Strip(sp.text) # <<>>)
  IN [i \in 1..Len(keep) |-> TextSpan(page_num, keep[i])]

BlockSpans(page_num, block) ==
  IF block.type # 0 THEN <<>>
  ELSE Concat([l \in 1..Len(block.lines) |-> LineSpans(page_num, block.lines[l])])

PageSpans(page_num, page) ==
  Concat([b \in 1..Len(page.blocks) |-> BlockSpans(page_num, page.blocks[b])])

extract_spans(d) == Concat([p \in 1..Len(d) |-> PageSpans(p - 1, d[p])])

(***************************************************************************)
(* Documents.  A page is what the document engine reports for it: its      *)
(* rectangle, annotations, drawings, visible content and the               *)
(* block/line/span text structure.                                         *)
(***************************************************************************)
Page(annots, drawings, bands, blocks) ==
  [rect_w |-> PageRectW, rect_h |-> PageRectH, annots |-> annots,
   drawings |-> drawings, bands |-> bands, blocks |-> blocks]

Annot(type, rect) == [type |-> type, rect |-> rect]
Drawing(fill, rect) == [fill |-> fill, rect |-> rect]

Black == <<0, 0, 0>>
PDF_ANNOT_HIGHLIGHT == PDF_ANNOT_REDACT - 4

RectWide == <<24, 0, 408, 132>>        \* 15.36 x 5.28 pt
RectSmall == <<50, 50, 300, 150>>      \* 10 x 4 pt
RectZero == <<100, 100, 100, 100>>     \* degenerate
RectExact == <<0, 150, 375, 275>>      \* exactly 15 x 5 pt
RectNarrow == <<0, 0, 374, 125>>       \* 14.96 x 5 pt
RectLow == <<0, 0, 375, 124>>          \* 15 x 4.96 pt
RectRight == <<500, 150, 875, 275>>
RectLeft == <<100, 150, 475, 275>>

AnnotChoices ==
  << <<Annot(PDF_ANNOT_REDACT, RectWide)>>,
     <<Annot(PDF_ANNOT_HIGHLIGHT, RectWide), Annot(PDF_ANNOT_REDACT, RectSmall),
       Annot(PDF_ANNOT_REDACT, RectZero)>>,
     <<Annot(PDF_ANNOT_REDACT, RectRight), Annot(PDF_ANNOT_REDACT, RectLeft)>> >>

DrawingChoices ==
  << <<Drawing(Black, RectWide)>>,
     <<Drawing(None, RectWide), Drawing(<<100, 100, 100>>, RectWide),
       Drawing(<<11, 0, 0>>, RectWide), Drawing(<<10, 10, 10>>, RectExact),
       Drawing(Black, RectNarrow), Drawing(Black, RectLow)>>,
     <<Drawing(Black, RectRight), Drawing(Black, RectLeft)>> >>

Blank == << <<PixHeight, <<>>, White>> >>

RasterChoices ==
  << \* 11 rows of one 32-pixel run from the top: the box RectWide
     << <<11, << <<2, 34>> >>, 0>>, <<PixHeight - 11, <<>>, White>> >>,
     \* 11 rows of one 31-pixel run at intensity 79, with one row of jitter
     << <<3, <<>>, White>>, <<5, << <<2, 33>> >>, 79>>, <<1, << <<4, 36>> >>, 79>>,
        <<5, << <<2, 33>> >>, 79>>, <<PixHeight - 14, <<>>, White>> >>,
     \* 10 rows (4.8pt) of one run, then two runs down to the last row
     << <<10, << <<2, 40>> >>, 0>>, <<4, <<>>, White>>,
        <<PixHeight - 14, << <<2, 34>>, <<40, 72>> >>, 0>> >>,
     \* a 30-pixel run, then a wide run at intensity 80: nothing dark enough
     << <<12, << <<2, 32>> >>, 0>>, <<1, <<>>, White>>,
        <<PixHeight - 13, << <<2, 40>> >>, 80>> >>,
     \* a wide run at intensity 80 only: no dark pixel at all
     << <<PixHeight, << <<2, 40>> >>, 80>> >> >>

Span(text, font, size, flags) ==
  [text |-> text, font |-> font, size |-> size, flags |-> flags, color |-> 0,
   bbox |-> <<50, 50, 300, 150>>]
TextBlock(lines) == [type |-> 0, lines |-> [i \in 1..Len(lines) |-> [spans |-> lines[i]]]]
ImageBlock == [type |-> 1, lines |-> <<>>]

NameArialMT == <<"A","r","i","a","l","M","T">>
NameTimes == <<"T","i","m","e","s","-","R","o","m","a","n">>
NameSymbol == <<"S","y","m","b","o","l">>

BlockChoices ==
  << << TextBlock(<< << Span(<<"H","i">>, NameArialMT, 1200, 0),
                        Span(<<" ">>, NameArialMT, 1200, 0) >>,
                     << Span(<<" ","a"," ">>, NameTimes, 1098, 22) >> >>),
        ImageBlock >>,
     << TextBlock(<< << Span(<<" ","\t">>, NameSymbol, 1050, 30),
                        Span(<<>>, NameSymbol, 1150, 8) >> >>) >>,
     << ImageBlock, TextBlock(<<>>) >> >>

\* pages that exercise one detector each
SinglePageKinds ==
  {Page(AnnotChoices[i], <<>>, Blank, <<>>) : i \in 1..Len(AnnotChoices)}
  \cup {Page(<<>>, DrawingChoices[i], Blank, <<>>) : i \in 1..Len(DrawingChoices)}
  \cup {Page(<<>>, <<>>, RasterChoices[i], <<>>) : i \in 1..Len(RasterChoices)}
  \cup {Page(<<>>, <<>>, Blank, BlockChoices[i]) : i \in 1..Len(BlockChoices)}

\* pages that documents of any length are made of
PageKinds ==
  {Page(<<>>, <<>>, Blank, <<>>),
   Page(AnnotChoices[3], <<>>, Blank, <<>>),
   Page(<<>>, DrawingChoices[3], Blank, <<>>),
   Page(<<>>, <<>>, RasterChoices[1], <<>>),
   Page(<<>>, <<>>, RasterChoices[3], <<>>),
   Page(AnnotChoices[1], DrawingChoices[1], RasterChoices[1], <<>>),
   Page(<<>>, <<>>, Blank, BlockChoices[1])}

\* the document engine raises at no step of any page
NoFail == [step |-> "none", page |-> 0]

\* what fitz.open makes of pdf_bytes: a parsed document, or a failure to parse
Docs == {[parsed |-> TRUE, pages |-> ps, fails |-> NoFail] :
           ps \in [1..1 -> SinglePageKinds]
                  \cup UNION {[1..n -> PageKinds] : n \in 1..MaxPages}}

Malformed == [parsed |-> FALSE, pages |-> <<>>, fails |-> NoFail]
NoDoc == [parsed |-> FALSE, pages |-> <<>>, fails |-> NoFail]

\* The steps at which the document engine can raise on a damaged page:
\* page.annots(), page.get_drawings(), page.get_pixmap(), page.get_text().
FailSteps == {"annots", "drawings", "pixmap", "text"}

ErrPageKinds ==
  {Page(<<>>, <<>>, Blank, <<>>),
   Page(AnnotChoices[1], DrawingChoices[1], RasterChoices[1], <<>>),
   Page(<<>>, <<>>, Blank, BlockChoices[1])}

\* documents that open, one page of which may be damaged
ErrDocs ==
  {d \in {[parsed |-> TRUE, pages |-> ps, fails |-> f] :
            ps \in UNION {[1..n -> ErrPageKinds] : n \in 1..MaxPages},
            f \in {NoFail} \cup [step : FailSteps, page : 1..MaxPages]} :
     d.fails.page <= Len(d.pages)}

(***************************************************************************)
(* find_redactions and extract_font_info, one call per behaviour           *)
(***************************************************************************)
DocIdle ==
  /\ op = "none" /\ pc = "idle" /\ doc = NoDoc /\ handle = "none"
  /\ results = <<>> /\ annotOut = <<>> /\ vecOut = <<>> /\ imgOut = <<>>
  /\ spans = <<>> /\ returned = <<>>

DocInit ==
  /\ op \in {"find_redactions", "extract_font_info"}
  /\ doc \in Docs \cup {Malformed}
  /\ pc = "start" /\ handle = "none"
  /\ results = <<>> /\ annotOut = <<>> /\ vecOut = <<>> /\ imgOut = <<>>
  /\ spans = <<>> /\ returned = <<>>

\* an except clause that returns what has been collected so far
swallow_error == pc' = "done" /\ returned' = sort_results(results) \o spans

\* An exception leaves the function: control goes to the caller, which gets
\* no return value.
raise_error == pc' = "raised" /\ returned' = returned

\* the pages before the one on which the engine raises
PagesBeforeFailure == SubSeq(doc.pages, 1, doc.fails.page - 1)

\* doc = fitz.open(stream=pdf_bytes, filetype="pdf")
Open ==
  /\ op \in {"find_redactions", "extract_font_info"} /\ pc = "start"
  /\ IF ~doc.parsed
     THEN raise_error /\ handle' = handle
     ELSE pc' = "opened" /\ handle' = "open" /\ returned' = returned
  /\ UNCHANGED <<op, doc, results, annotOut, vecOut, imgOut, spans>>

\* results = _find_annotation_redactions(doc.pages)
AnnotationDetector ==
  /\ op = "find_redactions" /\ pc = "opened"
  /\ IF doc.fails.step = "annots"
     THEN raise_error /\ UNCHANGED <<annotOut, results>>
     ELSE /\ annotOut' = find_annotation_redactions(doc.pages)
          /\ results' = annotOut'
          /\ pc' = "vector"
          /\ returned' = returned
  /\ UNCHANGED <<op, doc, handle, vecOut, imgOut, spans>>

\* results.extend(_find_vector_redactions(doc.pages))
VectorDetector ==
  /\ op = "find_redactions" /\ pc = "vector"
  /\ IF doc.fails.step = "drawings"
     THEN raise_error /\ UNCHANGED <<vecOut, results>>
     ELSE /\ vecOut' = find_vector_redactions(doc.pages)
          /\ results' = results \o vecOut'
          /\ pc' = "image"
          /\ returned' = returned
  /\ UNCHANGED <<op, doc, handle, annotOut, imgOut, spans>>

\* results.extend(_find_image_redactions(doc.pages))
ImageDetector ==
  /\ op = "find_redactions" /\ pc = "image"
  /\ IF doc.fails.step = "pixmap"
     THEN raise_error /\ UNCHANGED <<imgOut, results>>
     ELSE /\ imgOut' = find_image_redactions(doc.pages)
          /\ results' = results \o imgOut'
          /\ pc' = "close"
          /\ returned' = returned
  /\ UNCHANGED <<op, doc, handle, annotOut, vecOut, spans>>

\* doc.close(); results.sort(...); return results
find_redactions_return ==
  /\ op = "find_redactions" /\ pc = "close"
  /\ handle' = "closed"
  /\ returned' = sort_results(results)
  /\ pc' = "done"
  /\ UNCHANGED <<op, doc, results, annotOut, vecOut, imgOut, spans>>

\* the page loop of extract_font_info
ExtractSpans ==
  /\ op = "extract_font_info" /\ pc = "opened"
  /\ IF doc.fails.step = "text"
     THEN raise_error /\ spans' = extract_spans(PagesBeforeFailure)
     ELSE /\ spans' = extract_spans(doc.pages)
          /\ pc' = "close"
          /\ returned' = returned
  /\ UNCHANGED <<op, doc, handle, results, annotOut, vecOut, imgOut>>

\* doc.close(); return spans
extract_font_info_return ==
  /\ op = "extract_font_info" /\ pc = "close"
  /\ handle' = "closed"
  /\ returned' = spans
  /\ pc' = "done"
  /\ UNCHANGED <<op, doc, results, annotOut, vecOut, imgOut, spans>>

\* no round trip, no resolver call and no width call in progress
NoRoundTrip == [family |-> None, size |-> 0, strings |-> <<>>, disk |-> {}, path |-> None]
NoCall == [string |-> <<>>, font |-> None, size |-> 0, kerning |-> FALSE, ligatures |-> FALSE]
NoPrev == [call |-> NoCall, ret |-> 0]

Idle == [pc |-> "idle"]
OthersIdle == fc = Idle /\ net = Idle /\ scan = Idle

FontIdle == rt = NoRoundTrip /\ fontName = <<>> /\ matched = None
WidthIdle == wcall = NoCall /\ wret = 0 /\ wprev = NoPrev

Init == DocInit /\ FontIdle /\ WidthIdle /\ OthersIdle

Next ==
  \/ Open /\ UNCHANGED <<fontVars, widthVars, otherVars>>
  \/ AnnotationDetector /\ UNCHANGED <<fontVars, widthVars, otherVars>>
  \/ VectorDetector /\ UNCHANGED <<fontVars, widthVars, otherVars>>
  \/ ImageDetector /\ UNCHANGED <<fontVars, widthVars, otherVars>>
  \/ find_redactions_return /\ UNCHANGED <<fontVars, widthVars, otherVars>>
  \/ ExtractSpans /\ UNCHANGED <<fontVars, widthVars, otherVars>>
  \/ extract_font_info_return /\ UNCHANGED <<fontVars, widthVars, otherVars>>

Spec == Init /\ [][Next]_vars

(***************************************************************************)
(* FONT_FILES, _get_font_path and create_test_pdf                          *)
(***************************************************************************)
FONT_FILES ==
  ("arial" :> <<"Arial.ttf", "LiberationSans-Regular.ttf", "Arimo-Regular.ttf">>) @@
  ("calibri" :> <<"Calibri.ttf", "Carlito-Regular.ttf">>) @@
  ("cambria" :> <<"Cambria.ttf", "Caladea-Regular.ttf">>) @@
  ("courier new" :> <<"Courier New.ttf", "cour.ttf", "LiberationMono-Regular.ttf", "Cousine-Regular.ttf">>) @@
  ("helvetica" :> <<"Helvetica.ttc", "Helvetica.ttf", "Arial.ttf", "LiberationSans-Regular.ttf", "Arimo-Regular.ttf">>) @@
  ("times new roman" :> <<"Times New Roman.ttf", "times.ttf", "LiberationSerif-Regular.ttf", "Tinos-Regular.ttf">>)

Families == DOMAIN FONT_FILES

\* every file name some family accepts
FontFileNames == UNION {Range(FONT_FILES[f]) : f \in Families}

\* The two loops of _get_font_path: the first file name, in list order, found
\* under any search path; None stands for FileNotFoundError.  disk is the set
\* of file names present under the platform's search paths.
RECURSIVE get_font_path_from(_, _, _)
get_font_path_from(filenames, disk, i) ==
  IF i > Len(filenames) THEN None
  ELSE IF filenames[i] \in disk THEN filenames[i]
       ELSE get_font_path_from(filenames, disk, i + 1)

get_font_path(font, disk) == get_font_path_from(FONT_FILES[font], disk, 1)

\* The font name a document made from a font program reports for its text
\* runs: the program's PostScript name or its full name, depending on the
\* libraries' versions.
FontProgramNames ==
  ("Arial.ttf" :> {<<"A","r","i","a","l","M","T">>, <<"A","r","i","a","l">>}) @@
  ("LiberationSans-Regular.ttf" :> {<<"L","i","b","e","r","a","t","i","o","n","S","a","n","s">>, <<"L","i","b","e","r","a","t","i","o","n"," ","S","a","n","s">>}) @@
  ("Arimo-Regular.ttf" :> {<<"A","r","i","m","o","-","R","e","g","u","l","a","r">>, <<"A","r","i","m","o">>}) @@
  ("Calibri.ttf" :> {<<"C","a","l","i","b","r","i">>}) @@
  ("Carlito-Regular.ttf" :> {<<"C","a","r","l","i","t","o","-","R","e","g","u","l","a","r">>, <<"C","a","r","l","i","t","o">>}) @@
  ("Cambria.ttf" :> {<<"C","a","m","b","r","i","a">>}) @@
  ("Caladea-Regular.ttf" :> {<<"C","a","l","a","d","e","a","-","R","e","g","u","l","a","r">>, <<"C","a","l","a","d","e","a">>}) @@
  ("Courier New.ttf" :> {<<"C","o","u","r","i","e","r","N","e","w","P","S","M","T">>, <<"C","o","u","r","i","e","r"," ","N","e","w">>}) @@
  ("cour.ttf" :> {<<"C","o","u","r","i","e","r","N","e","w","P","S","M","T">>, <<"C","o","u","r","i","e","r"," ","N","e","w">>}) @@
  ("LiberationMono-Regular.ttf" :> {<<"L","i","b","e","r","a","t","i","o","n","M","o","n","o">>, <<"L","i","b","e","r","a","t","i","o","n"," ","M","o","n","o">>}) @@
  ("Cousine-Regular.ttf" :> {<<"C","o","u","s","i","n","e","-","R","e","g","u","l","a","r">>, <<"C","o","u","s","i","n","e">>}) @@
  ("Helvetica.ttc" :> {<<"H","e","l","v","e","t","i","c","a">>}) @@
  ("Helvetica.ttf" :> {<<"H","e","l","v","e","t","i","c","a">>}) @@
  ("Times New Roman.ttf" :> {<<"T","i","m","e","s","N","e","w","R","o","m","a","n","P","S","M","T">>, <<"T","i","m","e","s"," ","N","e","w"," ","R","o","m","a","n">>}) @@
  ("times.ttf" :> {<<"T","i","m","e","s","N","e","w","R","o","m","a","n","P","S","M","T">>, <<"T","i","m","e","s"," ","N","e","w"," ","R","o","m","a","n">>}) @@
  ("LiberationSerif-Regular.ttf" :> {<<"L","i","b","e","r","a","t","i","o","n","S","e","r","i","f">>, <<"L","i","b","e","r","a","t","i","o","n"," ","S","e","r","i","f">>}) @@
  ("Tinos-Regular.ttf" :> {<<"T","i","n","o","s","-","R","e","g","u","l","a","r">>, <<"T","i","n","o","s">>})

\* the raster of a page with a few lines of text
TextBands == << <<4, <<>>, White>>, <<6, << <<4, 20>> >>, 0>>, <<PixHeight - 10, <<>>, White>> >>

\* the strings a test document is made of
StringChoices == {<< <<"H","i">> >>, << <<"a"," ","b">>, <<"V">> >>}

\* The document c.save() writes: every string on its own line, set in the
\* registered font program at the given size (hundredths of a point).
created_pdf(strings, font_name, size) ==
  [parsed |-> TRUE,
   fails |-> NoFail,
   pages |-> << Page(<<>>, <<>>, TextBands,
                     << TextBlock([i \in 1..Len(strings) |->
                                     << Span(strings[i], font_name, 100 * size, 0) >>]) >>) >>]

(***************************************************************************)
(* The font resolver and the round trip, one call per behaviour            *)
(***************************************************************************)
MinFontSize == 8
MaxFontSize == 10

RuleSubstrings == {FONT_NAME_MAP[i][1] : i \in 1..Len(FONT_NAME_MAP)}

\* raw font names: names of real font programs, every rule's substring and
\* every concatenation of two of them, and names no rule knows
FontNames ==
  UNION {FontProgramNames[f] : f \in FontFileNames}
  \cup RuleSubstrings
  \cup {a \o b : a \in RuleSubstrings, b \in RuleSubstrings}
  \cup {<<>>,
   <<"A","R","I","A","L">>,
   <<"H","e","l","v","e","t","i","c","a","-","B","o","l","d">>,
   <<"L","I","B","E","R","A","T","I","O","N"," ","S","A","N","S">>,
   <<"D","e","j","a","V","u","S","a","n","s">>,
   <<"S","y","m","b","o","l">>,
   <<"T","i","m","e","s","-","R","o","m","a","n">>,
   <<"L","i","b","e","r","a","t","i","o","n">>,
   <<"C","o","u","r","i","e","r">>,
   <<"t","i","m","e">>,
   <<"B","C","D","E","E","E","+","C","a","l","i","b","r","i","-","B","o","l","d">>}

MatchInit ==
  /\ op = "_match_font" /\ pc = "start"
  /\ fontName \in FontNames
  /\ matched = None /\ rt = NoRoundTrip
  /\ doc = NoDoc /\ handle = "none"
  /\ results = <<>> /\ annotOut = <<>> /\ vecOut = <<>> /\ imgOut = <<>>
  /\ spans = <<>> /\ returned = <<>>

RoundTripInit ==
  /\ op = "create_test_pdf" /\ pc = "start"
  /\ \E family \in Families, size \in MinFontSize..MaxFontSize, strings \in StringChoices :
       \E disk \in SUBSET Range(FONT_FILES[family]) :
         rt = [family |-> family, size |-> size, strings |-> strings,
               disk |-> disk, path |-> None]
  /\ fontName = <<>> /\ matched = None
  /\ doc = NoDoc /\ handle = "none"
  /\ results = <<>> /\ annotOut = <<>> /\ vecOut = <<>> /\ imgOut = <<>>
  /\ spans = <<>> /\ returned = <<>>

\* _match_font(pdf_font_name)
MatchFont ==
  /\ op = "_match_font" /\ pc = "start"
  /\ matched' = match_font(fontName)
  /\ pc' = "done"
  /\ UNCHANGED <<op, doc, handle, results, annotOut, vecOut, imgOut, spans, returned,
                 rt, fontName>>

\* create_test_pdf(strings, font, size, output_path); the file it writes is
\* then read and handed to extract_font_info
create_test_pdf ==
  /\ op = "create_test_pdf" /\ pc = "start"
  /\ LET font_path == get_font_path(rt.family, rt.disk)
     IN IF font_path = None
        THEN /\ pc' = "raised"
             /\ UNCHANGED <<op, doc, rt>>
        ELSE /\ \E font_name \in FontProgramNames[font_path] :
                  doc' = created_pdf(rt.strings, font_name, rt.size)
             /\ rt' = [rt EXCEPT !.path = font_path]
             /\ op' = "extract_font_info"
             /\ pc' = "start"
  /\ UNCHANGED <<handle, results, annotOut, vecOut, imgOut, spans, returned,
                 fontName, matched>>

InitFont == (MatchInit \/ RoundTripInit) /\ WidthIdle /\ OthersIdle

NextFont ==
  \/ MatchFont /\ UNCHANGED <<widthVars, otherVars>>
  \/ create_test_pdf /\ UNCHANGED <<widthVars, otherVars>>
  \/ Open /\ UNCHANGED <<fontVars, widthVars, otherVars>>
  \/ ExtractSpans /\ UNCHANGED <<fontVars, widthVars, otherVars>>
  \/ extract_font_info_return /\ UNCHANGED <<fontVars, widthVars, otherVars>>

SpecFont == InitFont /\ [][NextFont]_vars

(***************************************************************************)
(* FontCache and calculate_width                                           *)
(***************************************************************************)
MaxTextLen == 3
MaxSize == 12

Alphabet == {"A", "V", "f", "i"}

NoPairs == [p \in {} |-> 0]

\* What FontCache.__init__ loads: per family the face (advances in font
\* units, kerning pairs, standard ligatures) and its units per em.
Cache ==
  [faces |->
     ("arial" :>
        [advance |-> ("A" :> 1366 @@ "V" :> 1366 @@ "f" :> 569 @@ "i" :> 455 @@ "fi" :> 1024),
         kern |-> (<<"A", "V">> :> (0 - 152) @@ <<"V", "A">> :> (0 - 152)),
         liga |-> (<<"f", "i">> :> "fi")]) @@
     ("times new roman" :>
        [advance |-> ("A" :> 1479 @@ "V" :> 1479 @@ "f" :> 682 @@ "i" :> 569 @@
                      "fi" :> 1139 @@ "ff" :> 1251),
         kern |-> (<<"A", "V">> :> (0 - 264) @@ <<"V", "A">> :> (0 - 264)),
         liga |-> (<<"f", "i">> :> "fi" @@ <<"f", "f">> :> "ff")]) @@
     ("courier new" :>
        [advance |-> ("A" :> 1229 @@ "V" :> 1229 @@ "f" :> 1229 @@ "i" :> 1229),
         kern |-> NoPairs,
         liga |-> NoPairs]),
   upem |-> ("arial" :> 2048 @@ "times new roman" :> 2048 @@ "courier new" :> 2048)]

\* a feature is applied unless the features dict switches it off
FeatureOn(features, tag) == tag \notin DOMAIN features \/ features[tag]

\* standard ligature substitution, left to right
RECURSIVE Ligate(_, _)
Ligate(face, glyphs) ==
  IF Len(glyphs) < 2 THEN glyphs
  ELSE IF <<glyphs[1], glyphs[2]>> \in DOMAIN face.liga
       THEN <<face.liga[<<glyphs[1], glyphs[2]>>]>> \o Ligate(face, Tail(Tail(glyphs)))
       ELSE <<glyphs[1]>> \o Ligate(face, Tail(glyphs))

\* hb.shape(hb_font, buf, features) at scale (upem, upem): the x_advance of
\* every output glyph, a kerning pair's adjustment added to its first glyph
hb_shape(face, string, features) ==
  LET glyphs == IF FeatureOn(features, "liga") THEN Ligate(face, string) ELSE string
  IN [k \in 1..Len(glyphs) |->
        face.advance[glyphs[k]]
        + (IF /\ FeatureOn(features, "kern")
              /\ k < Len(glyphs)
              /\ <<glyphs[k], glyphs[k + 1]>> \in DOMAIN face.kern
           THEN face.kern[<<glyphs[k], glyphs[k + 1]>>]
           ELSE 0)]

RECURSIVE SumSeq(_)
SumSeq(xs) == IF xs = <<>> THEN 0 ELSE xs[1] + SumSeq(Tail(xs))

NoFeatures == [tag \in {} |-> FALSE]

\* a features dict with the two flags exchanged
shape_features_swapped(kerning, ligatures) ==
  (IF ~ligatures THEN "kern" :> FALSE ELSE NoFeatures)
  @@ (IF ~kerning THEN "liga" :> FALSE ELSE NoFeatures)

\* the features dict calculate_width builds
shape_features(kerning, ligatures) ==
  (IF ~kerning THEN "kern" :> FALSE ELSE NoFeatures)
  @@ (IF ~ligatures THEN "liga" :> FALSE ELSE NoFeatures)

total_advance(string, font, cache, kerning, ligatures) ==
  SumSeq(hb_shape(cache.faces[font], string, shape_features(kerning, ligatures)))

\* a width with one pixel of padding
calculate_width_padded(string, font, size, cache, kerning, ligatures) ==
  PyRound(total_advance(string, font, cache, kerning, ligatures) * size, cache.upem[font]) + 1

\* a width that ignores the size
calculate_width_unscaled(string, font, size, cache, kerning, ligatures) ==
  PyRound(total_advance(string, font, cache, kerning, ligatures), cache.upem[font])

calculate_width(string, font, size, cache, kerning, ligatures) ==
  PyRound(total_advance(string, font, cache, kerning, ligatures) * size, cache.upem[font])

Width(call) ==
  calculate_width(call.string, call.font, call.size, Cache, call.kerning, call.ligatures)

Texts == UNION {[1..n -> Alphabet] : n \in 0..MaxTextLen}

Calls == [string : Texts, font : DOMAIN Cache.faces, size : 1..MaxSize,
          kerning : BOOLEAN, ligatures : BOOLEAN]

WidthInit ==
  /\ op = "calculate_width" /\ pc = "start"
  /\ wcall \in Calls
  /\ wret = 0 /\ wprev = NoPrev
  /\ doc = NoDoc /\ handle = "none"
  /\ results = <<>> /\ annotOut = <<>> /\ vecOut = <<>> /\ imgOut = <<>>
  /\ spans = <<>> /\ returned = <<>>

\* the first call
calculate_width_call ==
  /\ op = "calculate_width" /\ pc = "start"
  /\ IF wcall.font \notin DOMAIN Cache.faces
     THEN raise_error /\ wret' = wret        \* cache.faces[font]: KeyError
     ELSE wret' = Width(wcall) /\ pc' = "done" /\ returned' = returned
  /\ UNCHANGED <<op, doc, handle, results, annotOut, vecOut, imgOut, spans, wcall, wprev>>

\* a further call, with arguments next
FurtherCall(next) ==
  /\ op = "calculate_width" /\ pc = "done"
  /\ wprev' = [call |-> wcall, ret |-> wret]
  /\ wcall' = next
  /\ wret' = Width(next)
  /\ UNCHANGED <<op, pc, doc, handle, results, annotOut, vecOut, imgOut, spans, returned>>

\* the same arguments again, on the same cache
CallAgain == FurtherCall(wcall)

\* one more copy of the glyph its string repeats
CallAppended ==
  \E g \in Alphabet :
    /\ Len(wcall.string) < MaxTextLen
    /\ \A k \in 1..Len(wcall.string) : wcall.string[k] = g
    /\ FurtherCall([wcall EXCEPT !.string = Append(@, g)])

\* the same string at a larger size
CallLarger ==
  \E size \in (wcall.size + 1)..MaxSize : FurtherCall([wcall EXCEPT !.size = size])

InitWidth == WidthInit /\ FontIdle /\ OthersIdle

(***************************************************************************)
(* Calls that fail: damaged documents, families missing from the cache     *)
(***************************************************************************)
DocErrInit ==
  /\ op \in {"find_redactions", "extract_font_info"}
  /\ doc \in ErrDocs \cup {Malformed}
  /\ pc = "start" /\ handle = "none"
  /\ results = <<>> /\ annotOut = <<>> /\ vecOut = <<>> /\ imgOut = <<>>
  /\ spans = <<>> /\ returned = <<>>

\* calls for every family, loaded in the cache or not
ErrCalls == [string : {<<>>, <<"A", "V">>}, font : Families, size : {MaxSize},
             kerning : BOOLEAN, ligatures : {TRUE}]

WidthErrInit ==
  /\ op = "calculate_width" /\ pc = "start"
  /\ wcall \in ErrCalls
  /\ wret = 0 /\ wprev = NoPrev
  /\ doc = NoDoc /\ handle = "none"
  /\ results = <<>> /\ annotOut = <<>> /\ vecOut = <<>> /\ imgOut = <<>>
  /\ spans = <<>> /\ returned = <<>>

InitErr == ((DocErrInit /\ WidthIdle) \/ WidthErrInit) /\ FontIdle /\ OthersIdle

NextErr ==
  \/ Open /\ UNCHANGED <<fontVars, widthVars, otherVars>>
  \/ AnnotationDetector /\ UNCHANGED <<fontVars, widthVars, otherVars>>
  \/ VectorDetector /\ UNCHANGED <<fontVars, widthVars, otherVars>>
  \/ ImageDetector /\ UNCHANGED <<fontVars, widthVars, otherVars>>
  \/ find_redactions_return /\ UNCHANGED <<fontVars, widthVars, otherVars>>
  \/ ExtractSpans /\ UNCHANGED <<fontVars, widthVars, otherVars>>
  \/ extract_font_info_return /\ UNCHANGED <<fontVars, widthVars, otherVars>>
  \/ calculate_width_call /\ UNCHANGED <<fontVars, otherVars>>

SpecErr == InitErr /\ [][NextErr]_vars

NextWidth ==
  \/ calculate_width_call /\ UNCHANGED <<fontVars, otherVars>>
  \/ CallAgain /\ UNCHANGED <<fontVars, otherVars>>
  \/ CallAppended /\ UNCHANGED <<fontVars, otherVars>>
  \/ CallLarger /\ UNCHANGED <<fontVars, otherVars>>

SpecWidth == InitWidth /\ [][NextWidth]_vars

(***************************************************************************)
(* Properties of find_redactions and extract_font_info                     *)
(***************************************************************************)
FindRedactionsDone == op = "find_redactions" /\ pc = "done"
ExtractFontInfoDone == op = "extract_font_info" /\ pc = "done"

Count(s, e) == Cardinality({i \in 1..Len(s) : s[i] = e})

\* C1: the list find_redactions returns is sorted ascending by
\* (page, bbox.y0, bbox.x0): each box's key is lexicographically <= the next one's.
C1_SortedByPageTopLeft ==
  FindRedactionsDone =>
    \A i \in 2..Len(returned) :
      LET a == returned[i - 1]
          b == returned[i]
      IN \/ a.page < b.page
         \/ a.page = b.page /\ a.bbox[2] < b.bbox[2]
         \/ a.page = b.page /\ a.bbox[2] = b.bbox[2] /\ a.bbox[1] <= b.bbox[1]

\* a call where all three detectors found boxes and the sort moved some
C1_Witness ==
  /\ FindRedactionsDone
  /\ annotOut # <<>> /\ vecOut # <<>> /\ imgOut # <<>>
  /\ returned # results

\* the redaction annotations of the document, as boxes, with multiplicity
RedactAnnotCount(b) ==
  Cardinality({pi \in {<<p, i>> : p \in 1..Len(doc.pages), i \in 1..3} :
                 /\ pi[2] <= Len(doc.pages[pi[1]].annots)
                 /\ LET a == doc.pages[pi[1]].annots[pi[2]]
                    IN a.type = PDF_ANNOT_REDACT
                       /\ b = [page |-> pi[1] - 1, bbox |-> a.rect]})

\* the near-black filled drawings of at least 15 x 5 pt, as boxes, with multiplicity
BlackRectCount(b) ==
  Cardinality({pi \in {<<p, i>> : p \in 1..Len(doc.pages), i \in 1..6} :
                 /\ pi[2] <= Len(doc.pages[pi[1]].drawings)
                 /\ LET dr == doc.pages[pi[1]].drawings[pi[2]]
                    IN /\ dr.fill # None
                       /\ \A c \in 1..Len(dr.fill) : dr.fill[c] <= 10
                       /\ dr.rect[3] - dr.rect[1] >= 15 * UnitsPerPt
                       /\ dr.rect[4] - dr.rect[2] >= 5 * UnitsPerPt
                       /\ b = [page |-> pi[1] - 1, bbox |-> dr.rect]})

AllBoxes == Range(returned) \cup Range(annotOut) \cup Range(vecOut) \cup Range(imgOut)

\* C2: find_redactions returns exactly the multiset union of the three
\* detectors' outputs: every redaction annotation's rectangle verbatim, every
\* qualifying vector rectangle and every raster box, nothing merged or removed,
\* so its length is the sum of the three lengths.
C2_MultisetUnion ==
  FindRedactionsDone =>
    /\ Len(returned) = Len(annotOut) + Len(vecOut) + Len(imgOut)
    /\ \A b \in AllBoxes :
         /\ Count(returned, b) = Count(annotOut, b) + Count(vecOut, b) + Count(imgOut, b)
         /\ Count(annotOut, b) = RedactAnnotCount(b)
         /\ Count(vecOut, b) = BlackRectCount(b)

\* a region found by all three detectors appears three times
C2_Witness ==
  /\ FindRedactionsDone
  /\ \E b \in Range(returned) :
       /\ b \in Range(annotOut) /\ b \in Range(vecOut) /\ b \in Range(imgOut)
       /\ Count(returned, b) >= 3

\* C3: every box find_redactions returns has width > 0 and height > 0.
C3_PositiveDimensions ==
  FindRedactionsDone =>
    \A i \in 1..Len(returned) : BoxWidth(returned[i]) > 0 /\ BoxHeight(returned[i]) > 0

NoAnnotations == \A p \in 1..Len(doc.pages) : doc.pages[p].annots = <<>>
NoDrawings == \A p \in 1..Len(doc.pages) : doc.pages[p].drawings = <<>>
NoDarkPixels ==
  \A p \in 1..Len(doc.pages) :
    \A v \in Range(get_pixmap(doc.pages[p]).samples) : v >= 80
NoTextRuns ==
  \A p \in 1..Len(doc.pages) :
    \A b \in 1..Len(doc.pages[p].blocks) :
      \A l \in 1..Len(doc.pages[p].blocks[b].lines) :
        doc.pages[p].blocks[b].lines[l].spans = <<>>

\* C5: on a document without annotations, drawings or dark pixels
\* find_redactions returns the empty list, on a document without text runs
\* extract_font_info returns the empty list, and neither raises.
C5_EmptyDocumentEmptyList ==
  /\ (doc.parsed /\ op = "find_redactions" /\ NoAnnotations /\ NoDrawings /\ NoDarkPixels) =>
       /\ pc # "raised"
       /\ pc = "done" => returned = <<>>
  /\ (doc.parsed /\ op = "extract_font_info" /\ NoTextRuns) =>
       /\ pc # "raised"
       /\ pc = "done" => returned = <<>>

\* find_redactions has returned for a page whose only marks are lighter than dark
C5_Witness ==
  /\ FindRedactionsDone /\ doc.parsed
  /\ NoAnnotations /\ NoDrawings /\ NoDarkPixels
  /\ \E v \in Range(get_pixmap(doc.pages[1]).samples) : v < White

(***************************************************************************)
(* Properties of the font resolver and of the round trip                   *)
(***************************************************************************)
MatchFontDone == op = "_match_font" /\ pc = "done"
RoundTripDone == rt.family # None /\ ExtractFontInfoDone

\* the rules whose substring the lowercased name contains
Hits(name) ==
  {i \in 1..Len(FONT_NAME_MAP) : Contains(Lower(name), FONT_NAME_MAP[i][1])}

LiberationRules == {i \in 1..Len(FONT_NAME_MAP) :
                      Contains(FONT_NAME_MAP[i][1], <<"l","i","b","e","r","a","t","i","o","n">>)}

\* C6: _match_font returns the family of the first rule, in list order, whose
\* substring the lowercased name contains, and None when no rule matches; a
\* name that contains a liberation rule's substring resolves to the first such
\* rule's family whatever broader substring it also contains; and every rule
\* is reachable: its own substring contains no earlier rule's substring and
\* resolves to its own family.
C6_FirstRuleWins ==
  /\ MatchFontDone =>
       LET hits == Hits(fontName)
       IN /\ hits = {} => matched = None
          /\ \A i \in hits :
               (\A j \in hits : i <= j) => matched = FONT_NAME_MAP[i][2]
          /\ \A i \in hits \cap LiberationRules :
               (\A j \in hits \cap LiberationRules : i <= j) => matched = FONT_NAME_MAP[i][2]
          /\ \A i \in 1..Len(FONT_NAME_MAP) :
               fontName = FONT_NAME_MAP[i][1] => matched = FONT_NAME_MAP[i][2]
  /\ \A i \in 1..Len(FONT_NAME_MAP) :
       \A j \in 1..(i - 1) : ~Contains(FONT_NAME_MAP[i][1], FONT_NAME_MAP[j][1])

\* a name with a liberation rule's substring and a broader rule's substring of
\* another family has been resolved
C6_Witness ==
  /\ MatchFontDone
  /\ \E i \in Hits(fontName) \cap LiberationRules :
       \E k \in Hits(fontName) \ LiberationRules :
         FONT_NAME_MAP[k][2] # FONT_NAME_MAP[i][2] /\ matched = FONT_NAME_MAP[i][2]

\* C7: after rendering strings in family F at integer size s with the
\* first acceptable font file found on disk, extract_font_info returns spans,
\* each with font.size = s and font.matched_font = F.
C7_RoundTrip ==
  RoundTripDone =>
    /\ returned # <<>>
    /\ \A i \in 1..Len(returned) :
         /\ returned[i].font.size = rt.size
         /\ returned[i].font.matched_font = rt.family

(***************************************************************************)
(* Properties of calculate_width                                           *)
(***************************************************************************)
CalculateWidthDone == op = "calculate_width" /\ pc = "done"

\* the sum of the advances when kern is applied iff kern and liga iff liga
ShapedAdvance(call, kern, liga) ==
  SumSeq(hb_shape(Cache.faces[call.font], call.string, [kern |-> kern, liga |-> liga]))

\* C8: calculate_width returns an integer nearest to total_advance * size / UPM
\* (off by at most one half), where total_advance is the sum of the advances
\* shaped with kern disabled exactly when kerning is off and liga disabled
\* exactly when ligatures is off; a second call with the same arguments on
\* the same cache returns the same value.
C8_NearestInteger ==
  CalculateWidthDone =>
    LET upem == Cache.upem[wcall.font]
        total == ShapedAdvance(wcall, wcall.kerning, wcall.ligatures)
    IN /\ 2 * Abs(wret * upem - total * wcall.size) <= upem
       /\ wprev.call = wcall => wprev.ret = wret

\* a call repeated with kerning on and ligatures off, whose width is not the
\* one of kerning off and ligatures on
C8_Witness ==
  /\ CalculateWidthDone
  /\ wprev.call = wcall
  /\ wcall.kerning /\ ~wcall.ligatures
  /\ wret # PyRound(ShapedAdvance(wcall, FALSE, TRUE) * wcall.size, Cache.upem[wcall.font])

\* the latest call repeats one glyph and has one copy more than the call before
AppendedRepeatedGlyph ==
  /\ wprev.call.font # None
  /\ wcall.string # <<>>
  /\ \A k \in 1..Len(wcall.string) : wcall.string[k] = wcall.string[1]
  /\ wprev.call = [wcall EXCEPT !.string = SubSeq(@, 1, Len(@) - 1)]

\* C9: the width of the empty string is 0, and appending one more copy of
\* the glyph to a string of one repeated glyph never decreases the width.
C9_EmptyZeroRepeatedMonotone ==
  CalculateWidthDone =>
    /\ wcall.string = <<>> => wret = 0
    /\ wprev.call.font # None /\ wprev.call.string = <<>> => wprev.ret = 0
    /\ AppendedRepeatedGlyph => wprev.ret <= wret

\* a third f appended to ff, which ligatures had joined into one glyph
C9_Witness ==
  /\ CalculateWidthDone /\ AppendedRepeatedGlyph
  /\ wcall.string = <<"f", "f", "f">> /\ wcall.ligatures
  /\ <<"f", "f">> \in DOMAIN Cache.faces[wcall.font].liga
  /\ wprev.ret < wret

\* the latest call is the call before at a larger size, on a non-empty string
LargerSizeNonEmpty ==
  /\ wprev.call.font # None
  /\ wcall.string # <<>>
  /\ wprev.call.size < wcall.size
  /\ wprev.call = [wcall EXCEPT !.size = wprev.call.size]

\* C10 as claimed: for a non-empty string a larger size gives a strictly
\* larger width.
C10_StrictlyIncreasingInSize ==
  (CalculateWidthDone /\ LargerSizeNonEmpty) => wprev.ret < wret

\* C10: for a non-empty string a larger size never gives a smaller width, and
\* gives a strictly larger one whenever total_advance * (s2 - s1) > UPM, that
\* is whenever the unrounded widths differ by more than one.
C10_NonDecreasingInSize ==
  (CalculateWidthDone /\ LargerSizeNonEmpty) =>
    /\ wprev.ret <= wret
    /\ ShapedAdvance(wcall, wcall.kerning, wcall.ligatures)
         * (wcall.size - wprev.call.size) > Cache.upem[wcall.font]
       => wprev.ret < wret

\* two sizes of a non-empty string with the same width
C10_Witness ==
  /\ CalculateWidthDone /\ LargerSizeNonEmpty
  /\ wprev.ret = wret

(***************************************************************************)
(* Properties of failing calls                                             *)
(***************************************************************************)
Returned == pc \in {"done", "raised"}

\* C11: when find_redactions or extract_font_info hands control back to the
\* caller, by returning or by raising, the document handle it opened is not
\* open any more.
C11_HandleClosedOnEveryExit ==
  (op \in {"find_redactions", "extract_font_info"} /\ Returned) => handle # "open"

\* the step of this call at which the document engine raises, if any
FailingHere ==
  \/ ~doc.parsed
  \/ op = "find_redactions" /\ doc.fails.step \in {"annots", "drawings", "pixmap"}
  \/ op = "extract_font_info" /\ doc.fails.step = "text"

\* the positions a call can be at when the given step has not yet been run
NotPast(step) ==
  IF step = "annots" \/ step = "text" THEN {"start", "opened"}
  ELSE IF step = "drawings" THEN {"start", "opened", "vector"}
  ELSE {"start", "opened", "vector", "image"}

\* C12: a call on a document that does not open, or one of whose pages fails
\* in a step the call runs, ends by raising and never returns a list, whatever
\* earlier pages or detectors had collected; a call that raised has returned
\* nothing; and calculate_width for a family not in the cache raises without
\* returning a width.
C12_ErrorsPropagate ==
  /\ op \in {"find_redactions", "extract_font_info"} =>
       /\ pc = "raised" => returned = <<>> /\ FailingHere
       /\ FailingHere => pc # "done"
       /\ (doc.parsed /\ FailingHere) => pc \in NotPast(doc.fails.step) \cup {"raised"}
       /\ ~doc.parsed => pc \in {"start", "raised"}
  /\ (op = "calculate_width" /\ wcall.font \notin DOMAIN Cache.faces) =>
       pc \in {"start", "raised"} /\ wret = 0

\* a call raised after earlier detectors or pages had collected results
C12_Witness ==
  /\ pc = "raised" /\ returned = <<>>
  /\ \/ op = "find_redactions" /\ results # <<>>
     \/ op = "extract_font_info" /\ spans # <<>>

(***************************************************************************)
(* FontCache.__init__ over the platform's font directories                 *)
(***************************************************************************)
docData == <<doc, handle, results, annotOut, vecOut, imgOut, spans, returned>>

DocDataIdle ==
  /\ doc = NoDoc /\ handle = "none"
  /\ results = <<>> /\ annotOut = <<>> /\ vecOut = <<>> /\ imgOut = <<>>
  /\ spans = <<>> /\ returned = <<>>

\* the directories _get_font_path searches, in order
search_paths(system) ==
  IF system = "Darwin"
  THEN <<"/System/Library/Fonts", "/Library/Fonts", "~/Library/Fonts">>
  ELSE IF system = "Windows" THEN <<"C:/Windows/Fonts">>
  ELSE <<"/usr/share/fonts", "/usr/local/share/fonts", "~/.fonts">>

NoPath == <<>>

\* The search of _get_font_path, a file name at a time and under every
\* directory for each: files holds <<directory, name>> for every font file
\* at or below the directory; NoPath stands for FileNotFoundError.
RECURSIVE find_by_filename(_, _, _, _, _)
find_by_filename(filenames, paths, files, i, j) ==
  IF i > Len(filenames) THEN NoPath
  ELSE IF j > Len(paths) THEN find_by_filename(filenames, paths, files, i + 1, 1)
  ELSE IF <<paths[j], filenames[i]>> \in files THEN <<paths[j], filenames[i]>>
  ELSE find_by_filename(filenames, paths, files, i, j + 1)

\* a search that walks the directories first and the file names inside
RECURSIVE find_by_directory(_, _, _, _, _)
find_by_directory(filenames, paths, files, i, j) ==
  IF j > Len(paths) THEN NoPath
  ELSE IF i > Len(filenames) THEN find_by_directory(filenames, paths, files, 1, j + 1)
  ELSE IF <<paths[j], filenames[i]>> \in files THEN <<paths[j], filenames[i]>>
  ELSE find_by_directory(filenames, paths, files, i + 1, j)

get_font_path_directories_first(system, font, files) ==
  find_by_directory(FONT_FILES[font], search_paths(system), files, 1, 1)

get_font_path_on(system, font, files) ==
  find_by_filename(FONT_FILES[font], search_paths(system), files, 1, 1)

NoError == [type |-> None, filenames |-> <<>>]
NoCache == [built |-> FALSE, faces |-> {}]

\* the platforms and the font files installed on them
Systems == {"Linux", "Windows"}
InstalledChoices ==
  SUBSET {<<"/usr/share/fonts", "LiberationSans-Regular.ttf">>,
          <<"/usr/local/share/fonts", "Arial.ttf">>,
          <<"~/.fonts", "Arial.ttf">>,
          <<"/usr/share/fonts", "Cousine-Regular.ttf">>,
          <<"~/.fonts", "cour.ttf">>,
          <<"/usr/share/fonts", "Helvetica.ttf">>,
          <<"C:/Windows/Fonts", "Arial.ttf">>,
          <<"C:/Windows/Fonts", "cour.ttf">>}

\* the fonts argument; an argument of None loads every key of FONT_FILES
FontsChoices == {<<"arial">>, <<"arial", "courier new">>, <<"courier new", "helvetica">>,
                 <<"helvetica", "arial", "courier new">>}

FontCacheInit ==
  /\ op = "FontCache" /\ pc = "start"
  /\ \E system \in Systems, files \in InstalledChoices, fonts \in FontsChoices :
       fc = [pc |-> "loading", system |-> system, files |-> files, to_load |-> fonts,
             i |-> 1, faces |-> {}, lookups |-> <<>>, error |-> NoError,
             cache |-> NoCache]
  /\ net = Idle /\ scan = Idle
  /\ DocDataIdle /\ FontIdle /\ WidthIdle

\* one round of the loop of FontCache.__init__: resolve the family's file and
\* load it into the object under construction, or let the error out
FontCacheLoad ==
  /\ op = "FontCache" /\ pc = "start"
  /\ fc.i <= Len(fc.to_load)
  /\ LET font_name == fc.to_load[fc.i]
         path == get_font_path_on(fc.system, font_name, fc.files)
     IN IF path = NoPath
        THEN /\ fc' = [fc EXCEPT !.pc = "raised",
                                 !.lookups = @ \o <<font_name>>,
                                 !.error = [type |-> "FileNotFoundError",
                                            filenames |-> FONT_FILES[font_name]]]
             /\ pc' = "raised"
        ELSE /\ fc' = [fc EXCEPT !.i = @ + 1,
                                 !.lookups = @ \o <<font_name>>,
                                 !.faces = {f \in @ : f.font # font_name}
                                           \cup {[font |-> font_name, path |-> path]}]
             /\ pc' = pc
  /\ UNCHANGED <<op, docData, fontVars, widthVars, net, scan>>

\* the loop is over: the caller receives the object
FontCacheReturn ==
  /\ op = "FontCache" /\ pc = "start"
  /\ fc.i > Len(fc.to_load)
  /\ fc' = [fc EXCEPT !.pc = "done", !.cache = [built |-> TRUE, faces |-> fc.faces]]
  /\ pc' = "done"
  /\ UNCHANGED <<op, docData, fontVars, widthVars, net, scan>>

NextFontCache ==
  \/ FontCacheLoad
  \/ FontCacheReturn

SpecFontCache == FontCacheInit /\ [][NextFontCache]_vars

(***************************************************************************)
(* Properties of FontCache construction                                    *)
(***************************************************************************)
\* position of a value in a sequence that holds it
IndexOf(seq, v) == CHOOSE k \in 1..Len(seq) : seq[k] = v /\ \A m \in 1..(k - 1) : seq[m] # v

\* the installed files that count for a family on the platform
Candidates(system, font, files) ==
  {f \in files : f[1] \in Range(search_paths(system)) /\ f[2] \in Range(FONT_FILES[font])}

\* f comes before g: an earlier file name, or the same name in an earlier directory
SearchedBefore(system, font, f, g) ==
  LET nf == IndexOf(FONT_FILES[font], f[2])
      ng == IndexOf(FONT_FILES[font], g[2])
      df == IndexOf(search_paths(system), f[1])
      dg == IndexOf(search_paths(system), g[1])
  IN nf < ng \/ (nf = ng /\ df < dg)

Digits == <<"0","1","2","3","4","5","6","7","8","9">>

\* position of the first (last) element of s that is in cs; Len(s) + 1 (0)
\* when there is none
FirstOf(s, cs) ==
  IF \E i \in 1..Len(s) : s[i] \in cs
  THEN CHOOSE i \in 1..Len(s) : s[i] \in cs /\ \A j \in 1..(i - 1) : s[j] \notin cs
  ELSE Len(s) + 1
LastOf(s, cs) ==
  IF \E i \in 1..Len(s) : s[i] \in cs
  THEN CHOOSE i \in 1..Len(s) : s[i] \in cs /\ \A j \in (i + 1)..Len(s) : s[j] \notin cs
  ELSE 0
From(s, i) == SubSeq(s, i, Len(s))
Upto(s, i) == SubSeq(s, 1, i)

\* str.lstrip(chars), str.rstrip(chars)
RECURSIVE LStripChars(_, _)
LStripChars(s, cs) == IF s # <<>> /\ s[1] \in cs THEN LStripChars(Tail(s), cs) ELSE s
RECURSIVE RStripChars(_, _)
RStripChars(s, cs) ==
  IF s # <<>> /\ s[Len(s)] \in cs THEN RStripChars(Upto(s, Len(s) - 1), cs) ELSE s

StartsWith(s, prefix) == Len(s) >= Len(prefix) /\ Upto(s, Len(prefix)) = prefix
EndsWith(s, suffix) == Len(s) >= Len(suffix) /\ From(s, Len(s) - Len(suffix) + 1) = suffix

scheme_chars == Range(LowerCase) \cup Range(UpperCase) \cup Range(Digits) \cup {"+", "-", "."}

\* F applied to the value of v, which is computed once
With(v, F(_)) == CHOOSE r \in {F(x) : x \in {v}} : TRUE

\* the hostname property of a parse result: the netloc without user
\* information and port, in lower case
hostname_of(netloc) ==
  With(From(netloc, LastOf(netloc, {"@"}) + 1), LAMBDA hostinfo :
    Lower(IF StartsWith(hostinfo, <<"[">>)
          THEN SubSeq(hostinfo, 2, FirstOf(hostinfo, {"]"}) - 1)
          ELSE Upto(hostinfo, FirstOf(hostinfo, {":"}) - 1)))

\* the path of what follows the netloc: up to the first "#" or "?", and
\* without the parameters of its last segment
path_of(rest) ==
  With(Upto(rest, FirstOf(rest, {"#", "?"}) - 1), LAMBDA p :
    With(LastOf(p, {"/"}), LAMBDA slash :
      Upto(p, slash + FirstOf(From(p, slash + 1), {";"}) - 1)))

query_of(rest) ==
  With(Upto(rest, FirstOf(rest, {"#"}) - 1), LAMBDA r :
    From(r, FirstOf(r, {"?"}) + 1))

\* the scheme of url when its first colon is at position colon
scheme_of(url, colon) ==
  IF /\ 1 < colon /\ colon <= Len(url)
     /\ url[1] \in Range(LowerCase) \cup Range(UpperCase)
     /\ \A i \in 1..(colon - 1) : url[i] \in scheme_chars
  THEN Lower(Upto(url, colon - 1))
  ELSE <<>>

\* what follows the scheme: the netloc after "//", if any, and the rest
split_netloc(scheme, rest) ==
  IF StartsWith(rest, <<"/", "/">>)
  THEN With(From(rest, 3), LAMBDA tail :
         With(FirstOf(tail, {"/", "?", "#"}), LAMBDA delim :
           With(Upto(tail, delim - 1), LAMBDA netloc :
             With(From(tail, delim), LAMBDA after :
               [scheme |-> scheme, netloc |-> netloc, path |-> path_of(after),
                query |-> query_of(after),
                fragment |-> From(after, FirstOf(after, {"#"}) + 1),
                hostname |-> hostname_of(netloc)]))))
  ELSE [scheme |-> scheme, netloc |-> <<>>, path |-> path_of(rest),
        query |-> query_of(rest), fragment |-> From(rest, FirstOf(rest, {"#"}) + 1),
        hostname |-> <<>>]

\* urlparse(url): scheme, netloc, path (without the last segment's
\* parameters), query, fragment and the hostname property, for which <<>>
\* stands for None.  Leading blanks and embedded tabs and newlines are
\* removed first.
urlparse(raw) ==
  With(SelectSeq(LStripChars(raw, {" "}), LAMBDA c : c \notin {"\t", "\n"}), LAMBDA url :
    With(scheme_of(url, FirstOf(url, {":"})), LAMBDA scheme :
      With(IF scheme = <<>> THEN url ELSE From(url, Len(scheme) + 2), LAMBDA rest :
        split_netloc(scheme, rest))))

\* the percent escapes that occur in the URLs below and the characters they
\* stand for
PercentEscapes == (<<"2", "0">> :> " ") @@ (<<"2", "F">> :> "/") @@ (<<"2", "f">> :> "/")

\* unquote(string): every escape replaced, anything else left as it is
RECURSIVE unquote(_)
unquote(s) ==
  IF s = <<>> THEN <<>>
  ELSE IF s[1] = "%" /\ Len(s) >= 3 /\ <<s[2], s[3]>> \in DOMAIN PercentEscapes
       THEN <<PercentEscapes[<<s[2], s[3]>>]>> \o unquote(From(s, 4))
       ELSE <<s[1]>> \o unquote(Tail(s))

SchemeHttp == <<"h","t","t","p">>
SchemeHttps == <<"h","t","t","p","s">>

\* allowed_domains=None
NotGiven == [given |-> FALSE, domains |-> <<>>]
Given(domains) == [given |-> TRUE, domains |-> domains]

\* a host passes for every domain it merely ends with
domain_matches_suffix(hostname, domain) == EndsWith(hostname, domain)

\* hostname == domain or hostname.endswith(f".{domain}")
domain_matches(hostname, domain) ==
  hostname = domain \/ EndsWith(hostname, <<".">> \o domain)

\* validate_url(url, allowed_domains=...): "ok" when it returns, otherwise
\* the check that raised ValueError
validate_parsed(parsed, allowed_domains) ==
  IF parsed.scheme \notin {SchemeHttp, SchemeHttps} THEN "scheme"
  ELSE IF parsed.hostname = <<>> THEN "hostname"
  ELSE IF parsed.path = <<>> \/ parsed.path = <<"/">> THEN "path"
  ELSE IF /\ allowed_domains.given
          /\ ~\E i \in 1..Len(allowed_domains.domains) :
               domain_matches(Lower(parsed.hostname), allowed_domains.domains[i])
       THEN "domain"
  ELSE "ok"

validate_url(url, allowed_domains) ==
  With(urlparse(url), LAMBDA parsed : validate_parsed(parsed, allowed_domains))

\* a blob path that keeps the path as it is written, percent escapes included
url_to_blob_path_raw(url) ==
  With(urlparse(url), LAMBDA parsed :
    parsed.hostname \o <<"/">> \o LStripChars(parsed.path, {"/"}))

\* url_to_blob_path(url) for a url that validate_url accepts
url_to_blob_path(url) ==
  With(urlparse(url), LAMBDA parsed :
    parsed.hostname \o <<"/">> \o LStripChars(unquote(parsed.path), {"/"}))

ArchivePrefix == <<"h","t","t","p","s",":","/","/","w","e","b",".","a","r","c","h","i","v","e",".","o","r","g","/","w","e","b","/">>
to_archive_url(url) == ArchivePrefix \o url

GsPrefix == <<"g","s",":","/","/">>

\* the setting taken as the bucket's name, whatever it looks like
bucket_name_as_configured(storage_bucket) == storage_bucket

\* _bucket_name(settings)
bucket_name(storage_bucket) ==
  RStripChars(IF StartsWith(storage_bucket, GsPrefix)
              THEN From(storage_bucket, Len(GsPrefix) + 1)
              ELSE storage_bucket, {"/"})

Urls ==
  {<<"h","t","t","p","s",":","/","/","w","w","w",".","j","u","s","t","i","c","e",".","g","o","v","/","f","i","l","e","s","/","D","a","t","a","S","e","t","%","2","0","9","/","a",".","p","d","f">>,
   <<"h","t","t","p","s",":","/","/","w","w","w",".","j","u","s","t","i","c","e",".","g","o","v","/","f","i","l","e","s","/","D","a","t","a","S","e","t"," ","9","/","a",".","p","d","f">>,
   <<"h","t","t","p",":","/","/","W","W","W",".","J","u","s","t","i","c","e",".","G","O","V",":","8","0","8","0","/","f","i","l","e","s","/","D","a","t","a","S","e","t","%","2","0","9","/","a",".","p","d","f","?","v","=","2","#","p","3">>,
   <<"h","t","t","p","s",":","/","/","j","u","s","t","i","c","e",".","g","o","v","/","a",".","p","d","f">>,
   <<"H","T","T","P","S",":","/","/","j","u","s","t","i","c","e",".","g","o","v","/","/","a",".","p","d","f">>,
   <<"h","t","t","p","s",":","/","/","u","s","e","r","@","j","u","s","t","i","c","e",".","g","o","v","/","a",".","p","d","f",";","v","=","1">>,
   <<"h","t","t","p","s",":","/","/","n","o","t","j","u","s","t","i","c","e",".","g","o","v","/","a",".","p","d","f">>,
   <<"h","t","t","p","s",":","/","/","e","v","i","l",".","c","o","m","/","a",".","p","d","f">>,
   <<"h","t","t","p","s",":","/","/","j","u","s","t","i","c","e",".","g","o","v",".","e","v","i","l",".","c","o","m","/","a",".","p","d","f">>,
   <<"h","t","t","p","s",":","/","/","e","v","i","l",".","c","o","m","/","j","u","s","t","i","c","e",".","g","o","v","/","a",".","p","d","f">>,
   <<"h","t","t","p","s",":","/","/","e","x","a","m","p","l","e",".","c","o","m","/","f","i","l","e",".","p","d","f">>,
   <<"f","t","p",":","/","/","j","u","s","t","i","c","e",".","g","o","v","/","a",".","p","d","f">>,
   <<"j","u","s","t","i","c","e",".","g","o","v","/","a",".","p","d","f">>,
   <<"/","/","j","u","s","t","i","c","e",".","g","o","v","/","a",".","p","d","f">>,
   <<"h","t","t","p","s",":","/","/","/","a",".","p","d","f">>,
   <<"h","t","t","p","s",":","/","/",":","4","4","3","/","a",".","p","d","f">>,
   <<"h","t","t","p","s",":","/","/","j","u","s","t","i","c","e",".","g","o","v">>,
   <<"h","t","t","p","s",":","/","/","j","u","s","t","i","c","e",".","g","o","v","/">>,
   <<"h","t","t","p","s",":","/","/","j","u","s","t","i","c","e",".","g","o","v","?","f","=","/","a",".","p","d","f">>,
   <<"h","t","t","p","s",":","/","/","j","u","s","t","i","c","e",".","g","o","v","/","%","2","F","a",".","p","d","f">>,
   <<"h","t","t","p","s",":","/","/","j","u","s","t","i","c","e",".","g","o","v","/","a","%","z","z",".","p","d","f">>,
   <<"h","t","t","p","s",":","/","/","j","u","s","t","i","c","e",".","g","o","v","/","%","2","F">>,
   <<" ","h","t","t","p","s",":","/","/","j","u","s","t","i","c","e",".","g","o","v","/","a",".","p","d","f">>,
   <<>>}

JusticeGov == <<"j","u","s","t","i","c","e",".","g","o","v">>
WwwJusticeGov == <<"w","w","w",".","j","u","s","t","i","c","e",".","g","o","v">>

(***************************************************************************)
(* cache.py against a bucket store and the web archive, and the two        *)
(* by-URL endpoints of api.py.  net holds the call's arguments and         *)
(* settings, the environment (credentials, stored objects), what the call  *)
(* did (HTTP clients made, requests sent, storage calls) and its outcome.  *)
(***************************************************************************)
TestBucket == <<"t","e","s","t","-","b","u","c","k","e","t">>
OtherBucket == <<"o","t","h","e","r","-","b","u","c","k","e","t">>
ContentTypePdf == "application/pdf"

\* Settings.storage_bucket as configured
BucketSettings == {<<>>, TestBucket, GsPrefix \o TestBucket, GsPrefix \o TestBucket \o <<"/">>}

\* Settings.allowed_domains by default
DefaultAllowedDomains == <<JusticeGov, WwwJusticeGov>>

AllowedChoices == {NotGiven, Given(<<>>), Given(<<JusticeGov>>), Given(DefaultAllowedDomains)}

StoredObject(bucket, name, data) ==
  [bucket |-> bucket, name |-> name, data |-> data, content_type |-> ContentTypePdf]

\* what the store holds before the call
ObjectChoices ==
  LET a == StoredObject(TestBucket, <<"w","w","w",".","j","u","s","t","i","c","e",".","g","o","v","/","f","i","l","e","s","/","D","a","t","a","S","e","t"," ","9","/","a",".","p","d","f">>, "pdfS")
      b == StoredObject(TestBucket, <<"j","u","s","t","i","c","e",".","g","o","v","/","a",".","p","d","f">>, "pdfT")
      c == StoredObject(OtherBucket, <<"e","x","a","m","p","l","e",".","c","o","m","/","f","i","l","e",".","p","d","f">>, "pdfU")
      d == StoredObject(TestBucket, <<"e","x","a","m","p","l","e",".","c","o","m","/","f","i","l","e",".","p","d","f">>, "pdfS")
  IN {{}, {a, b}, {c}, {a, b, c, d}}

\* what a GET of the archive can come to: a body, an error status that
\* raise_for_status turns into HTTPStatusError, or no response at all
WebOutcomes ==
  {[kind |-> "ok", status |-> 200, body |-> b] : b \in {"pdfA", "pdfB", "html"}}
  \cup {[kind |-> "HTTPStatusError", status |-> 404, body |-> None],
        [kind |-> "RequestError", status |-> 0, body |-> None]}

\* the documents the bytes are
PdfDocument ==
  ("pdfA" :> [parsed |-> TRUE, fails |-> NoFail,
              pages |-> << Page(AnnotChoices[1], DrawingChoices[1], Blank, BlockChoices[1]) >>]) @@
  ("pdfB" :> [parsed |-> TRUE, fails |-> NoFail,
              pages |-> << Page(<<>>, <<>>, Blank, <<>>) >>]) @@
  ("pdfS" :> [parsed |-> TRUE, fails |-> NoFail,
              pages |-> << Page(<<>>, DrawingChoices[1], Blank, BlockChoices[2]) >>]) @@
  ("pdfT" :> [parsed |-> TRUE, fails |-> [step |-> "text", page |-> 1],
              pages |-> << Page(<<>>, <<>>, Blank, BlockChoices[1]) >>]) @@
  ("pdfU" :> Malformed) @@
  ("html" :> Malformed)

CacheOps == {"validate_url", "url_to_blob_path", "check_cache", "ensure_in_cache", "fetch_pdf"}
StorageOps == {"check_cache", "ensure_in_cache", "fetch_pdf"}
Endpoints == {"/fonts/by-url", "/redactions/by-url"}

CacheResult(source_url, storage_url, present) ==
  [source_url |-> source_url, storage_url |-> storage_url, present |-> present]
NoCacheResult == CacheResult(<<>>, <<>>, FALSE)

\* previous.objects is the store as the call found it, previous.bytes what
\* the call before this one returned.
\* nothing returned yet; kind is "None", "str", "bytes" or "CacheResult" after
NoResult == [kind |-> "none", bytes |-> None, str |-> <<>>, cache |-> NoCacheResult]

StorageCall(call, bucket, name, data, content_type) ==
  [call |-> call, bucket |-> bucket, name |-> name, data |-> data,
   content_type |-> content_type]

NetStart(url, bucket, allowed, initialised, creds, objects) ==
  [url |-> url, bucket |-> bucket, allowed |-> allowed, initialised |-> initialised,
   creds |-> creds, objects |-> objects,
   clients |-> 0, http |-> <<>>, storage |-> <<>>,
   checked |-> NoCacheResult, data |-> None,
   result |-> NoResult, error |-> None, reason |-> None,
   call |-> 1, previous |-> [bytes |-> None, objects |-> objects],
   caller |-> None, response |-> 0]

CacheInit ==
  /\ pc = "start"
  /\ \/ /\ op = "validate_url"
        /\ \E url \in Urls, allowed \in AllowedChoices :
             net = NetStart(url, <<>>, allowed, TRUE, TRUE, {})
     \/ /\ op = "url_to_blob_path"
        /\ \E url \in Urls : net = NetStart(url, <<>>, NotGiven, TRUE, TRUE, {})
     \/ /\ op \in {"check_cache", "ensure_in_cache"}
        /\ \E url \in Urls, bucket \in BucketSettings \ {<<>>}, creds \in BOOLEAN,
              objects \in ObjectChoices :
             net = NetStart(url, bucket, Given(DefaultAllowedDomains), TRUE, creds, objects)
     \/ /\ op = "fetch_pdf"
        /\ \E url \in Urls, bucket \in BucketSettings, creds \in BOOLEAN,
              objects \in ObjectChoices :
             net = NetStart(url, bucket, Given(DefaultAllowedDomains), TRUE, creds, objects)
     \/ /\ op \in Endpoints
        /\ \E url \in Urls, bucket \in {<<>>, TestBucket}, initialised \in BOOLEAN,
              objects \in ObjectChoices :
             net = NetStart(url, bucket, Given(DefaultAllowedDomains), initialised, TRUE,
                            objects)
  /\ fc = Idle /\ scan = Idle
  /\ DocDataIdle /\ FontIdle /\ WidthIdle

\* the call ends with an exception
NetRaise(error, reason) ==
  /\ net' = [net EXCEPT !.error = error, !.reason = reason]
  /\ pc' = "raised"

\* validate_url; url_to_blob_path; and the first lines of check_cache,
\* ensure_in_cache and fetch_pdf up to the point where they turn to the
\* store or to the archive
CacheStart ==
  /\ op \in CacheOps /\ pc = "start"
  /\ LET v == validate_url(net.url, IF op = "validate_url" THEN net.allowed ELSE NotGiven)
     IN IF v # "ok" THEN NetRaise("ValueError", v)
        ELSE IF op = "validate_url"
        THEN net' = [net EXCEPT !.result.kind = "None"] /\ pc' = "done"
        ELSE IF op = "url_to_blob_path"
        THEN /\ net' = [net EXCEPT !.result.kind = "str",
                                   !.result.str = url_to_blob_path(net.url)]
             /\ pc' = "done"
        ELSE IF op = "fetch_pdf" /\ net.bucket = <<>>
        THEN net' = net /\ pc' = "download"
        ELSE net' = net /\ pc' = "exists"
  /\ UNCHANGED <<op, docData, fontVars, widthVars, fc, scan>>

\* a store in which an upload leaves no object behind
upload_lost(objects, bucket, name, data, content_type) == objects

\* blob.upload_from_string(data, content_type=...): the object is created or
\* replaced
upload_from_string(objects, bucket, name, data, content_type) ==
  {o \in objects : ~(o.bucket = bucket /\ o.name = name)}
  \cup {[bucket |-> bucket, name |-> name, data |-> data, content_type |-> content_type]}

\* storage.Client(), client.bucket(...), bucket.blob(...), blob.exists() and,
\* in fetch_pdf on a hit, blob.download_as_bytes()
StorageExists ==
  /\ op \in StorageOps /\ pc = "exists"
  /\ IF ~net.creds THEN NetRaise("DefaultCredentialsError", None)
     ELSE
       LET name == bucket_name(net.bucket)
           blob_path == url_to_blob_path(net.url)
           storage_url == GsPrefix \o name \o <<"/">> \o blob_path
           found == {o \in net.objects : o.bucket = name /\ o.name = blob_path}
           exists == StorageCall("exists", name, blob_path, None, None)
           read == StorageCall("download_as_bytes", name, blob_path, None, None)
           result == CacheResult(net.url, storage_url, found # {})
       IN IF op = "check_cache" \/ (op = "ensure_in_cache" /\ found # {})
          THEN /\ net' = [net EXCEPT !.storage = @ \o <<exists>>,
                                     !.checked = result,
                                     !.result.kind = "CacheResult",
                                     !.result.cache = result]
               /\ pc' = "done"
          ELSE IF op = "fetch_pdf" /\ found # {}
          THEN /\ \E o \in found :
                    net' = [net EXCEPT !.storage = @ \o <<exists, read>>,
                                       !.result.kind = "bytes",
                                       !.result.bytes = o.data]
               /\ pc' = "done"
          ELSE /\ net' = [net EXCEPT !.storage = @ \o <<exists>>, !.checked = result]
               /\ pc' = "download"
  /\ UNCHANGED <<op, docData, fontVars, widthVars, fc, scan>>

\* with httpx.Client(follow_redirects=True) as http: http.get(archive_url),
\* raise_for_status(), response.content
HttpGet ==
  /\ op \in {"ensure_in_cache", "fetch_pdf"} /\ pc = "download"
  /\ \E outcome \in WebOutcomes :
       LET sent == [net EXCEPT !.clients = @ + 1,
                               !.http = @ \o <<[method |-> "GET",
                                                url |-> to_archive_url(net.url)]>>]
       IN IF outcome.kind # "ok"
          THEN /\ net' = [sent EXCEPT !.error = outcome.kind, !.reason = None]
               /\ pc' = "raised"
          ELSE IF op = "fetch_pdf" /\ net.bucket = <<>>
          THEN /\ net' = [sent EXCEPT !.data = outcome.body,
                                      !.result.kind = "bytes",
                                      !.result.bytes = outcome.body]
               /\ pc' = "done"
          ELSE /\ net' = [sent EXCEPT !.data = outcome.body]
               /\ pc' = "upload"
  /\ UNCHANGED <<op, docData, fontVars, widthVars, fc, scan>>

\* blob.upload_from_string(data, content_type="application/pdf") and the
\* return that follows it
StorageUpload ==
  /\ op \in {"ensure_in_cache", "fetch_pdf"} /\ pc = "upload"
  /\ LET name == bucket_name(net.bucket)
         blob_path == url_to_blob_path(net.url)
         stored == [net EXCEPT
                      !.objects = upload_from_string(@, name, blob_path, net.data,
                                                     ContentTypePdf),
                      !.storage = @ \o <<StorageCall("upload_from_string", name, blob_path,
                                                     net.data, ContentTypePdf)>>]
     IN IF op = "ensure_in_cache"
        THEN net' = [stored EXCEPT
                       !.result.kind = "CacheResult",
                       !.result.cache = CacheResult(net.url, net.checked.storage_url, TRUE)]
        ELSE net' = [stored EXCEPT !.result.kind = "bytes", !.result.bytes = net.data]
  /\ pc' = "done"
  /\ UNCHANGED <<op, docData, fontVars, widthVars, fc, scan>>

\* the caller fetches the same URL once more
FetchAgain ==
  /\ op = "fetch_pdf" /\ pc = "done" /\ net.caller = None /\ net.call = 1
  /\ net' = [net EXCEPT !.call = 2,
                        !.previous = [bytes |-> net.result.bytes, objects |-> net.objects],
                        !.clients = 0, !.http = <<>>, !.storage = <<>>,
                        !.checked = NoCacheResult, !.data = None, !.result = NoResult]
  /\ pc' = "start"
  /\ UNCHANGED <<op, docData, fontVars, widthVars, fc, scan>>

\* an endpoint that takes any http(s) URL
endpoint_validate_any(url, allowed_domains) == validate_url(url, NotGiven)

\* validate_url(request.url, allowed_domains=settings.allowed_domains)
endpoint_validate(url, allowed_domains) == validate_url(url, Given(allowed_domains))

\* analyse_fonts_by_url and find_redactions_by_url up to the call of
\* fetch_pdf
EndpointStart ==
  /\ op \in Endpoints /\ pc = "start"
  /\ IF ~net.initialised
     THEN net' = [net EXCEPT !.response = 503] /\ pc' = "responded" /\ op' = op
     ELSE IF endpoint_validate(net.url, net.allowed.domains) # "ok"
     THEN /\ net' = [net EXCEPT !.response = 400,
                                !.reason = endpoint_validate(net.url, net.allowed.domains)]
          /\ pc' = "responded" /\ op' = op
     ELSE net' = [net EXCEPT !.caller = op] /\ op' = "fetch_pdf" /\ pc' = "start"
  /\ UNCHANGED <<docData, fontVars, widthVars, fc, scan>>

\* fetch_pdf has returned to the endpoint or raised into it: 502 for the two
\* httpx errors, any other exception is not handled, and with the bytes the
\* endpoint calls extract_font_info or find_redactions
EndpointFetched ==
  /\ net.caller \in Endpoints /\ op = "fetch_pdf" /\ pc \in {"done", "raised"}
  /\ IF pc = "raised"
     THEN /\ net' = [net EXCEPT !.response =
                       IF net.error \in {"HTTPStatusError", "RequestError"} THEN 502 ELSE 500]
          /\ op' = net.caller /\ pc' = "responded"
          /\ doc' = doc
     ELSE /\ net' = net
          /\ op' = IF net.caller = "/fonts/by-url" THEN "extract_font_info"
                   ELSE "find_redactions"
          /\ pc' = "start"
          /\ doc' = PdfDocument[net.result.bytes]
  /\ UNCHANGED <<handle, results, annotOut, vecOut, imgOut, spans, returned,
                 fontVars, widthVars, fc, scan>>

\* the extraction has returned or raised: the response is built from the list
\* or the exception is not handled
EndpointRespond ==
  /\ net.caller \in Endpoints /\ op \in {"extract_font_info", "find_redactions"}
  /\ pc \in {"done", "raised"}
  /\ net' = [net EXCEPT !.response = IF pc = "done" THEN 200 ELSE 500]
  /\ op' = net.caller /\ pc' = "responded"
  /\ UNCHANGED <<docData, fontVars, widthVars, fc, scan>>

NextNet ==
  \/ CacheStart
  \/ StorageExists
  \/ HttpGet
  \/ StorageUpload
  \/ FetchAgain
  \/ EndpointStart
  \/ EndpointFetched
  \/ EndpointRespond
  \/ Open /\ UNCHANGED <<fontVars, widthVars, otherVars>>
  \/ AnnotationDetector /\ UNCHANGED <<fontVars, widthVars, otherVars>>
  \/ VectorDetector /\ UNCHANGED <<fontVars, widthVars, otherVars>>
  \/ ImageDetector /\ UNCHANGED <<fontVars, widthVars, otherVars>>
  \/ find_redactions_return /\ UNCHANGED <<fontVars, widthVars, otherVars>>
  \/ ExtractSpans /\ UNCHANGED <<fontVars, widthVars, otherVars>>
  \/ extract_font_info_return /\ UNCHANGED <<fontVars, widthVars, otherVars>>

SpecNet == CacheInit /\ [][NextNet]_vars

(***************************************************************************)
(* Concurrent calls of ensure_in_cache and fetch_pdf for one URL against   *)
(* one bucket.  Each call is a sequence of steps on the store and on the   *)
(* archive: blob.exists(), on a hit in fetch_pdf blob.download_as_bytes(), *)
(* on a miss http.get() and then blob.upload_from_string(); the steps of   *)
(* different calls interleave freely.  The store and the credentials work. *)
(***************************************************************************)
NumCalls == 2

\* the URLs of the stored object www.justice.gov/files/DataSet 9/a.pdf
RaceUrls ==
  {u \in Urls : /\ validate_url(u, NotGiven) = "ok"
                /\ \E objects \in ObjectChoices : \E o \in objects :
                     o.bucket = TestBucket /\ o.data = "pdfS"
                       /\ o.name = url_to_blob_path(u)}

\* a call that has not started: got is the body of its own download,
\* uploaded the bytes it has passed to upload_from_string, found what its
\* blob.exists() returned
RaceCall(kind) ==
  [op |-> kind, pc |-> "exists", found |-> FALSE, got |-> None, uploaded |-> None,
   result |-> "none", bytes |-> None, error |-> None]

RaceInit ==
  /\ op = "concurrent" /\ pc = "start"
  /\ \E url \in RaceUrls, bucket \in {TestBucket, GsPrefix \o TestBucket \o <<"/">>},
        objects \in ObjectChoices,
        kinds \in [1..NumCalls -> {"ensure_in_cache", "fetch_pdf"}] :
       net = [pc |-> "calls", url |-> url, bucket |-> bucket_name(bucket),
              blob_path |-> url_to_blob_path(url),
              initial |-> objects, objects |-> objects,
              calls |-> [i \in 1..NumCalls |-> RaceCall(kinds[i])]]
  /\ fc = Idle /\ scan = Idle
  /\ DocDataIdle /\ FontIdle /\ WidthIdle

\* the objects the store holds under the URL's blob path
Cached(objects) == {o \in objects : o.bucket = net.bucket /\ o.name = net.blob_path}

RaceStep(i, call) ==
  /\ net' = [net EXCEPT !.calls[i] = call]
  /\ UNCHANGED <<op, pc, docData, fontVars, widthVars, fc, scan>>

\* blob.exists(): check_cache inside ensure_in_cache (which returns at once
\* on a hit), or fetch_pdf's own test
RaceExists(i) ==
  /\ op = "concurrent" /\ net.calls[i].pc = "exists"
  /\ LET c == net.calls[i]
         found == Cached(net.objects) # {}
     IN IF found /\ c.op = "ensure_in_cache"
        THEN RaceStep(i, [c EXCEPT !.found = TRUE, !.pc = "done", !.result = "present"])
        ELSE IF found
        THEN RaceStep(i, [c EXCEPT !.found = TRUE, !.pc = "read"])
        ELSE RaceStep(i, [c EXCEPT !.pc = "download"])

\* fetch_pdf on a hit: return blob.download_as_bytes()
RaceRead(i) ==
  /\ op = "concurrent" /\ net.calls[i].pc = "read"
  /\ IF Cached(net.objects) = {}
     THEN RaceStep(i, [net.calls[i] EXCEPT !.pc = "raised", !.error = "NotFound"])
     ELSE \E o \in Cached(net.objects) :
            RaceStep(i, [net.calls[i] EXCEPT !.pc = "done", !.result = "bytes",
                                             !.bytes = o.data])

\* http.get(archive_url), raise_for_status(), data = response.content
RaceGet(i) ==
  /\ op = "concurrent" /\ net.calls[i].pc = "download"
  /\ \E outcome \in WebOutcomes :
       IF outcome.kind # "ok"
       THEN RaceStep(i, [net.calls[i] EXCEPT !.pc = "raised", !.error = outcome.kind])
       ELSE RaceStep(i, [net.calls[i] EXCEPT !.pc = "upload", !.got = outcome.body])

\* an upload that sends the bytes the first call has downloaded
upload_data_shared(calls, i) == calls[1].got

\* the `data` a call passes to upload_from_string: its own response.content
upload_data(calls, i) == calls[i].got

\* blob.upload_from_string(data, content_type="application/pdf") and the
\* return: CacheResult(present=True) or the data
RaceUpload(i) ==
  /\ op = "concurrent" /\ net.calls[i].pc = "upload"
  /\ LET c == net.calls[i]
         data == upload_data(net.calls, i)
     IN net' = [net EXCEPT
                  !.objects = upload_from_string(@, net.bucket, net.blob_path, data,
                                                 ContentTypePdf),
                  !.calls[i] = IF c.op = "ensure_in_cache"
                               THEN [c EXCEPT !.pc = "done", !.uploaded = data,
                                              !.result = "present"]
                               ELSE [c EXCEPT !.pc = "done", !.uploaded = data,
                                              !.result = "bytes", !.bytes = c.got]]
  /\ UNCHANGED <<op, pc, docData, fontVars, widthVars, fc, scan>>

NextRace ==
  \/ \E i \in 1..NumCalls : RaceExists(i)
  \/ \E i \in 1..NumCalls : RaceRead(i)
  \/ \E i \in 1..NumCalls : RaceGet(i)
  \/ \E i \in 1..NumCalls : RaceUpload(i)

SpecRace == RaceInit /\ [][NextRace]_vars

(***************************************************************************)
(* Two calls in a row for two URLs against one bucket: ensure_in_cache or  *)
(* fetch_pdf for the first URL, then fetch_pdf for the second.             *)
(***************************************************************************)
\* the URLs validate_url accepts
KeyUrls == {u \in Urls : validate_url(u, NotGiven) = "ok"}

KeyInit ==
  /\ op \in {"ensure_in_cache", "fetch_pdf"} /\ pc = "start"
  /\ \E url \in KeyUrls, other \in KeyUrls, objects \in ObjectChoices :
       net = NetStart(url, TestBucket, Given(DefaultAllowedDomains), TRUE, TRUE, objects)
               @@ [other |-> other]
  /\ fc = Idle /\ scan = Idle
  /\ DocDataIdle /\ FontIdle /\ WidthIdle

\* the first call has returned; the caller fetches the other URL, which
\* becomes net.url while net.other keeps the first one
FetchOther ==
  /\ op \in {"ensure_in_cache", "fetch_pdf"} /\ pc = "done" /\ net.call = 1
  /\ net' = [net EXCEPT !.url = net.other, !.other = net.url, !.call = 2,
                        !.previous = [bytes |-> net.result.bytes, objects |-> net.objects],
                        !.clients = 0, !.http = <<>>, !.storage = <<>>,
                        !.checked = NoCacheResult, !.data = None, !.result = NoResult]
  /\ op' = "fetch_pdf" /\ pc' = "start"
  /\ UNCHANGED <<docData, fontVars, widthVars, fc, scan>>

NextKey ==
  \/ CacheStart
  \/ StorageExists
  \/ HttpGet
  \/ StorageUpload
  \/ FetchOther

SpecKey == KeyInit /\ [][NextKey]_vars

(***************************************************************************)
(* _find_image_redactions on one page, a row at a time                     *)
(***************************************************************************)
\* page contents for the row loop: those of RasterChoices and
ScanRasters ==
  RasterChoices \o
  << \* two runs for 6 rows, then one run for 7 rows
     << <<2, <<>>, White>>, <<6, << <<2, 34>>, <<40, 72>> >>, 0>>,
        <<7, << <<2, 34>> >>, 0>>, <<PixHeight - 15, <<>>, White>> >>,
     \* a run for exactly 5 rows, a gap, the same run for 4 rows
     << <<5, << <<10, 50>> >>, 0>>, <<3, <<>>, White>>,
        <<4, << <<10, 50>> >>, 0>>, <<PixHeight - 12, <<>>, White>> >>,
     \* a run that drifts to the right by a pixel or two per row
     << <<3, << <<10, 50>> >>, 0>>, <<2, << <<13, 53>> >>, 0>>,
        <<6, << <<14, 54>> >>, 0>>, <<PixHeight - 11, <<>>, White>> >>,
     \* a run that widens beyond the tolerance after 5 rows, down to the last row
     << <<5, << <<20, 60>> >>, 0>>, <<PixHeight - 5, << <<20, 70>> >>, 0>> >>,
     \* a run for 3 rows, one white row, then the same run for 12 rows
     << <<3, << <<10, 50>> >>, 0>>, <<1, <<>>, White>>,
        <<12, << <<10, 50>> >>, 0>>, <<PixHeight - 16, <<>>, White>> >>,
     \* a run for the first 12 rows and the same run again for the last 3 rows
     << <<12, << <<20, 70>> >>, 0>>, <<PixHeight - 15, <<>>, White>>,
        <<3, << <<20, 70>> >>, 0>> >>,
     \* a run for exactly the last 5 rows
     << <<PixHeight - 5, <<>>, White>>, <<5, << <<30, 65>> >>, 0>> >> >>

\* the rasters that end with an open region, for documents of several pages
CrossPageRasters == {3, 9, 11}

\* documents as sequences of rasters: every raster alone, and every sequence
\* of 2..MaxPages pages whose rasters end with a region still open
ScanDocs ==
  {<<k>> : k \in 1..Len(ScanRasters)}
  \cup UNION {[1..n -> CrossPageRasters] : n \in 2..MaxPages}

\* no row scanned yet
NoStep == [y |-> 0 - 1, runs |-> <<>>, matched |-> FALSE, prev_runs |-> <<>>,
           rect_start_y |-> 0, emitted |-> <<>>]

\* a page loop that keeps the previous page's prev_runs and rect_start_y
page_start_carry(before) == before

\* `prev_runs = []` and `rect_start_y = 0` at the top of the page loop;
\* before holds the values the two locals had at the end of the page before
page_start(before) == [prev_runs |-> <<>>, rect_start_y |-> 0]

ScanInit ==
  /\ op = "_find_image_redactions" /\ pc = "start"
  /\ \E d \in ScanDocs :
       scan = [pc |-> "rows", pages |-> d, page_num |-> 0, y |-> 0,
               prev_runs |-> page_start([prev_runs |-> <<>>, rect_start_y |-> 0]).prev_runs,
               rect_start_y |-> page_start([prev_runs |-> <<>>, rect_start_y |-> 0]).rect_start_y,
               out |-> <<>>, rows |-> <<>>, last |-> NoStep, closing |-> <<>>,
               results |-> <<>>]
  /\ fc = Idle /\ net = Idle
  /\ DocDataIdle /\ FontIdle /\ WidthIdle

ScanPage == Page(<<>>, <<>>, ScanRasters[scan.pages[scan.page_num + 1]], <<>>)

\* one round of `for y in range(h)`; rows keeps the runs of every row seen and
\* last what this round found and did
ScanRow ==
  /\ op = "_find_image_redactions" /\ pc = "start" /\ scan.pc = "rows"
  /\ scan.y < ScanPage.rect_h \div UnitsPerPx
  /\ scan' =
       With(get_pixmap(ScanPage), LAMBDA pix :
         With((min_width_pt * UnitsPerPt) \div (ScanPage.rect_w \div pix.width),
              LAMBDA min_run_px :
           With(get_dark_runs(pix.samples, scan.y, pix.width, dark_threshold, min_run_px),
                LAMBDA runs :
             With(scan_row(scan.page_num, pix, ScanPage.rect_w \div pix.width,
                           ScanPage.rect_h \div pix.height, min_run_px, scan.y,
                           [prev_runs |-> scan.prev_runs,
                            rect_start_y |-> scan.rect_start_y, out |-> scan.out]),
                  LAMBDA st :
               [scan EXCEPT
                  !.y = @ + 1,
                  !.prev_runs = st.prev_runs,
                  !.rect_start_y = st.rect_start_y,
                  !.out = st.out,
                  !.rows = Append(@, runs),
                  !.last = [y |-> scan.y, runs |-> runs,
                            matched |-> runs_match(runs, scan.prev_runs, run_tolerance),
                            prev_runs |-> scan.prev_runs,
                            rect_start_y |-> scan.rect_start_y,
                            emitted |-> SubSeq(st.out, Len(scan.out) + 1, Len(st.out))]]))))
  /\ UNCHANGED <<op, pc, docData, fontVars, widthVars, fc, net>>

\* "Close final rectangles" after the last row of a page; closing keeps the
\* boxes it appended
ScanClose ==
  /\ op = "_find_image_redactions" /\ pc = "start" /\ scan.pc = "rows"
  /\ scan.y = ScanPage.rect_h \div UnitsPerPx
  /\ scan' =
       With(close_rects(scan.page_num, scan.prev_runs, scan.rect_start_y, scan.y,
                        ScanPage.rect_w \div PixWidth, ScanPage.rect_h \div PixHeight),
            LAMBDA final :
         [scan EXCEPT !.pc = "page_end", !.out = @ \o final, !.closing = final])
  /\ UNCHANGED <<op, pc, docData, fontVars, widthVars, fc, net>>

\* the next round of `for page_num, page in enumerate(doc)`
ScanNextPage ==
  /\ op = "_find_image_redactions" /\ pc = "start" /\ scan.pc = "page_end"
  /\ scan.page_num + 1 < Len(scan.pages)
  /\ scan' =
       With(page_start([prev_runs |-> scan.prev_runs, rect_start_y |-> scan.rect_start_y]),
            LAMBDA locals :
         [scan EXCEPT !.pc = "rows", !.page_num = @ + 1, !.y = 0,
                      !.prev_runs = locals.prev_runs,
                      !.rect_start_y = locals.rect_start_y,
                      !.rows = <<>>, !.last = NoStep, !.closing = <<>>])
  /\ UNCHANGED <<op, pc, docData, fontVars, widthVars, fc, net>>

\* "Filter by minimum height" and the return, after the last page
ScanFilter ==
  /\ op = "_find_image_redactions" /\ pc = "start" /\ scan.pc = "page_end"
  /\ scan.page_num + 1 = Len(scan.pages)
  /\ scan' = [scan EXCEPT
                !.pc = "done",
                !.results = SelectSeq(scan.out, LAMBDA r :
                                        BoxHeight(r) >= min_height_pt * UnitsPerPt)]
  /\ pc' = "done"
  /\ UNCHANGED <<op, docData, fontVars, widthVars, fc, net>>

NextScan ==
  \/ ScanRow
  \/ ScanClose
  \/ ScanNextPage
  \/ ScanFilter

SpecScan == ScanInit /\ [][NextScan]_vars

(***************************************************************************)
(* _get_dark_runs on its own: one call on a raster of two rows, one of     *)
(* them drawn from every row of RowWidth pixels over three intensities,    *)
(* the other all dark or all white.                                        *)
(***************************************************************************)
RowWidth == 7
MaxMinWidth == 3

Intensities == {dark_threshold - 1, dark_threshold, White}
Thresholds == {dark_threshold, dark_threshold + 1}

RunsInit ==
  /\ op = "_get_dark_runs" /\ pc = "start"
  /\ \E row \in [1..RowWidth -> Intensities], other \in {0, White}, y \in {0, 1},
        threshold \in Thresholds, min_width \in 1..MaxMinWidth :
       scan = [pc |-> "call",
               samples |-> IF y = 0 THEN row \o [x \in 1..RowWidth |-> other]
                           ELSE [x \in 1..RowWidth |-> other] \o row,
               y |-> y, width |-> RowWidth, threshold |-> threshold,
               min_width |-> min_width, runs |-> <<>>]
  /\ fc = Idle /\ net = Idle
  /\ DocDataIdle /\ FontIdle /\ WidthIdle

RunsCall ==
  /\ op = "_get_dark_runs" /\ pc = "start" /\ scan.pc = "call"
  /\ scan' = [scan EXCEPT !.pc = "returned",
                          !.runs = get_dark_runs(scan.samples, scan.y, scan.width,
                                                 scan.threshold, scan.min_width)]
  /\ pc' = "done"
  /\ UNCHANGED <<op, docData, fontVars, widthVars, fc, net>>

NextRuns == RunsCall

SpecRuns == RunsInit /\ [][NextRuns]_vars

(***************************************************************************)
(* Properties of extract_font_info                                         *)
(***************************************************************************)
\* visits <<page, block, line, run>> of the text runs of the document's text
\* blocks whose text holds a character that is not white space
RetainedRuns ==
  UNION {UNION {UNION {
    {<<p, b, l, r>> :
       r \in {r \in 1..Len(doc.pages[p].blocks[b].lines[l].spans) :
                \E c \in Range(doc.pages[p].blocks[b].lines[l].spans[r].text) :
                  c \notin {" ", "\t", "\n"}}} :
    l \in 1..Len(doc.pages[p].blocks[b].lines)} :
    b \in {b \in 1..Len(doc.pages[p].blocks) : doc.pages[p].blocks[b].type = 0}} :
    p \in 1..Len(doc.pages)}

RunAt(v) == doc.pages[v[1]].blocks[v[2]].lines[v[3]].spans[v[4]]

\* u is visited before v
VisitedBefore(u, v) ==
  \E k \in 1..4 : u[k] < v[k] /\ \A m \in 1..(k - 1) : u[m] = v[m]

\* C14: the list extract_font_info returns has one entry per retained run, the
\* entry at the run's rank among the retained runs in visiting order carries
\* the run's text, font name, box and 0-based page; every entry's text holds
\* a character that is not white space and the page indices never decrease.
C14_ExactlyTheNonBlankRunsInOrder ==
  (op = "extract_font_info" /\ pc = "done") =>
    /\ Len(returned) = Cardinality(RetainedRuns)
    /\ \A v \in RetainedRuns :
         LET k == 1 + Cardinality({u \in RetainedRuns : VisitedBefore(u, v)})
         IN /\ returned[k].text = RunAt(v).text
            /\ returned[k].font.name = RunAt(v).font
            /\ returned[k].bbox = RunAt(v).bbox
            /\ returned[k].page = v[1] - 1
    /\ \A k \in 1..Len(returned) :
         /\ \E c \in Range(returned[k].text) : c \notin {" ", "\t", "\n"}
         /\ k > 1 => returned[k - 1].page <= returned[k].page

\* a returned list of runs from two pages, the first page holding runs of
\* white space that were left out
C14_Witness ==
  /\ op = "extract_font_info" /\ pc = "done"
  /\ Len(returned) >= 3
  /\ returned[1].page < returned[Len(returned)].page
  /\ \E l \in Range(doc.pages[1].blocks[1].lines) :
       \E sp \in Range(l.spans) : sp.text # <<>> /\ Strip(sp.text) = <<>>

(***************************************************************************)
(* Properties of cache.py and of the by-URL endpoints                      *)
(***************************************************************************)
ArchiveRequest == [method |-> "GET", url |-> ArchivePrefix \o net.url]

\* the objects stored for the call's URL in the configured bucket
StoredFor(objects) ==
  {o \in objects : o.bucket = TestBucket /\ o.name = url_to_blob_path(net.url)}

\* C15: fetch_pdf without a bucket makes no storage call and returns the body
\* of one GET of the archive URL; with a bucket and the object stored it
\* returns the stored bytes after an existence check and a read, without any
\* HTTP client; with a bucket and no object it checks, sends one GET to the
\* archive URL, uploads that body under the URL's blob path and returns it,
\* and the fetch of the same URL right after it sends no request and returns
\* the same bytes.
C15_FetchPdfThreePaths ==
  op = "fetch_pdf" =>
    /\ net.bucket = <<>> =>
         /\ net.storage = <<>> /\ net.objects = net.previous.objects
         /\ pc = "done" => /\ net.http = <<ArchiveRequest>> /\ net.clients = 1
                           /\ net.result.kind = "bytes" /\ net.result.bytes = net.data
    /\ (net.bucket # <<>> /\ pc = "done" /\ StoredFor(net.previous.objects) # {}) =>
         /\ net.http = <<>> /\ net.clients = 0
         /\ net.objects = net.previous.objects
         /\ net.result.kind = "bytes"
         /\ \E o \in StoredFor(net.previous.objects) : net.result.bytes = o.data
         /\ [i \in 1..Len(net.storage) |-> net.storage[i].call]
              = <<"exists", "download_as_bytes">>
    /\ (net.bucket # <<>> /\ pc = "done" /\ StoredFor(net.previous.objects) = {}) =>
         /\ net.http = <<ArchiveRequest>> /\ net.clients = 1
         /\ net.result.kind = "bytes" /\ net.result.bytes = net.data
         /\ StoredFor(net.objects) =
              {StoredObject(TestBucket, url_to_blob_path(net.url), net.result.bytes)}
         /\ net.objects \ StoredFor(net.objects) = net.previous.objects
         /\ [i \in 1..Len(net.storage) |-> net.storage[i].call]
              = <<"exists", "upload_from_string">>
         /\ net.storage[2].data = net.result.bytes
    /\ (net.bucket # <<>> /\ net.call = 2) =>
         /\ net.http = <<>> /\ net.clients = 0 /\ pc # "raised"
         /\ net.objects = net.previous.objects
         /\ pc = "done" => net.result.bytes = net.previous.bytes

\* the second of two fetches has returned the bytes the first one downloaded
\* and stored
C15_Witness ==
  /\ op = "fetch_pdf" /\ net.call = 2 /\ pc = "done"
  /\ net.bucket # <<>>
  /\ net.previous.bytes \in {"pdfA", "pdfB"}
  /\ net.result.bytes = net.previous.bytes

StorageCalls == [i \in 1..Len(net.storage) |-> net.storage[i].call]

\* C16: ensure_in_cache that returns has, with the object stored, sent no
\* request and uploaded nothing, and, with no object stored, sent exactly one
\* GET, to the source URL itself, and uploaded the body once as
\* application/pdf under the URL's blob path; either way it returns
\* present = TRUE and the storage_url gs://<bucket>/<host>/<decoded path>.
C16_EnsureInCache ==
  (op = "ensure_in_cache" /\ pc = "done") =>
    /\ net.result.kind = "CacheResult"
    /\ net.result.cache =
         CacheResult(net.url, GsPrefix \o TestBucket \o <<"/">> \o url_to_blob_path(net.url),
                     TRUE)
    /\ StoredFor(net.previous.objects) # {} =>
         /\ net.http = <<>> /\ net.clients = 0
         /\ StorageCalls = <<"exists">>
         /\ net.objects = net.previous.objects
    /\ StoredFor(net.previous.objects) = {} =>
         /\ net.http = <<[method |-> "GET", url |-> net.url]>>
         /\ StorageCalls = <<"exists", "upload_from_string">>
         /\ net.storage[2] = StorageCall("upload_from_string", TestBucket,
                                         url_to_blob_path(net.url), net.data, ContentTypePdf)
         /\ StoredFor(net.objects) =
              {StoredObject(TestBucket, url_to_blob_path(net.url), net.data)}

\* C17: check_cache, at every point of the call, has made no HTTP client and
\* sent no request, has called nothing on the store but exists() and has left
\* the stored objects as they were; when it returns, present says whether an
\* object of the URL's blob path exists in the bucket named by the setting
\* without its gs:// prefix, and storage_url names that place.
C17_CheckCacheReadOnly ==
  op = "check_cache" =>
    /\ net.clients = 0 /\ net.http = <<>>
    /\ net.objects = net.previous.objects
    /\ \A i \in 1..Len(net.storage) : net.storage[i].call = "exists"
    /\ pc = "done" =>
         /\ net.result.kind = "CacheResult"
         /\ net.result.cache.present =
              (\E o \in net.objects :
                 o.bucket = TestBucket /\ o.name = url_to_blob_path(net.url))
         /\ net.result.cache.storage_url =
              GsPrefix \o TestBucket \o <<"/">> \o url_to_blob_path(net.url)
         /\ net.result.cache.source_url = net.url

\* check_cache found the object although the setting spells the bucket with
\* the gs:// prefix
C17_Witness ==
  /\ op = "check_cache" /\ pc = "done"
  /\ StartsWith(net.bucket, GsPrefix)
  /\ net.result.cache.present
  /\ net.objects # {}

\* host is the domain or a name below it
AtOrBelow(host, domain) ==
  \/ host = domain
  \/ /\ Len(host) > Len(domain)
     /\ host[Len(host) - Len(domain)] = "."
     /\ \A i \in 1..Len(domain) : host[Len(host) - Len(domain) + i] = domain[i]

\* C18: validate_url raises ValueError exactly when the scheme is not http or
\* https, or there is no hostname, or the path is empty or "/", or a list of
\* domains is given and the hostname is not at or below any of them, and the
\* error is that of the first of these checks that fails; so with the list
\* [justice.gov] the hosts justice.gov and www.justice.gov pass and
\* notjustice.gov and evil.com do not, and without a list every host passes.
C18_ValidateUrl ==
  (op = "validate_url" /\ pc \in {"done", "raised"}) =>
    LET parsed == urlparse(net.url)
        bad_scheme == parsed.scheme \notin {SchemeHttp, SchemeHttps}
        no_host == parsed.hostname = <<>>
        no_path == parsed.path \in {<<>>, <<"/">>}
        not_allowed == /\ net.allowed.given
                       /\ \A d \in Range(net.allowed.domains) :
                            ~AtOrBelow(parsed.hostname, d)
    IN /\ (pc = "raised") = (bad_scheme \/ no_host \/ no_path \/ not_allowed)
       /\ pc = "raised" =>
            /\ net.error = "ValueError"
            /\ net.reason = IF bad_scheme THEN "scheme"
                            ELSE IF no_host THEN "hostname"
                            ELSE IF no_path THEN "path" ELSE "domain"
       /\ (net.allowed = Given(<<JusticeGov>>) /\ ~bad_scheme /\ ~no_path) =>
            /\ parsed.hostname \in {JusticeGov, WwwJusticeGov} => pc = "done"
            /\ parsed.hostname \in {<<"n","o","t","j","u","s","t","i","c","e",".","g","o","v">>,
                                    <<"e","v","i","l",".","c","o","m">>} => pc = "raised"
       /\ (~net.allowed.given /\ ~bad_scheme /\ ~no_host /\ ~no_path) => pc = "done"

\* notjustice.gov was turned down by the list [justice.gov]
C18_Witness ==
  /\ op = "validate_url" /\ pc = "raised"
  /\ net.allowed = Given(<<JusticeGov>>)
  /\ net.reason = "domain"
  /\ EndsWith(urlparse(net.url).hostname, JusticeGov)

\* a request to one of the two endpoints is being served or has been answered
InRequest == op \in Endpoints \/ net.caller \in Endpoints

\* the endpoint has called extract_font_info or find_redactions
Extracting == net.caller \in Endpoints /\ op \in {"extract_font_info", "find_redactions"}

HttpxErrors == {"HTTPStatusError", "RequestError"}

\* C19: a request served without settings is answered 503 and one whose URL
\* validate_url turns down for the allowed domains is answered 400, in both
\* cases without fetch_pdf being called, any HTTP client or request, any
\* storage call or any extraction; a request that passed both is answered
\* 502 when fetch_pdf raised one of the two httpx errors, again without
\* extraction; extraction runs only on the bytes fetch_pdf returned, and 200
\* is the answer only after it returned its list.
C19_EndpointCheckOrder ==
  InRequest =>
    LET rejected == validate_url(net.url, net.allowed) # "ok"
        untouched == /\ op # "fetch_pdf" /\ ~Extracting
                     /\ net.clients = 0 /\ net.http = <<>> /\ net.storage = <<>>
                     /\ net.objects = net.previous.objects
                     /\ handle = "none" /\ returned = <<>>
    IN /\ ~net.initialised =>
            untouched /\ (pc = "responded" => net.response = 503)
       /\ (net.initialised /\ rejected) =>
            untouched /\ (pc = "responded" => net.response = 400)
       /\ (net.initialised /\ ~rejected /\ net.error \in HttpxErrors) =>
            /\ ~Extracting /\ handle = "none"
            /\ pc = "responded" => net.response = 502
       /\ Extracting =>
            /\ net.initialised /\ ~rejected /\ net.error = None
            /\ net.result.kind = "bytes" /\ doc = PdfDocument[net.result.bytes]
       /\ net.response = 503 => ~net.initialised
       /\ net.response = 400 => net.initialised /\ rejected
       /\ net.response = 502 => net.initialised /\ ~rejected /\ net.error \in HttpxErrors
       /\ net.response = 200 =>
            /\ net.initialised /\ ~rejected /\ net.error = None
            /\ net.result.kind = "bytes"
            /\ returned = IF op = "/fonts/by-url"
                          THEN extract_spans(PdfDocument[net.result.bytes].pages)
                          ELSE sort_results(results)

\* a request went past both checks and was answered 502 after the archive
\* failed on a cache miss
C19_Witness ==
  /\ op \in Endpoints /\ pc = "responded"
  /\ net.response = 502
  /\ net.storage # <<>> /\ net.http # <<>>

(***************************************************************************)
(* Properties of the row loop of _find_image_redactions                    *)
(***************************************************************************)
\* the round just made found a row that does not match the open, non-empty
\* run-set
ClosedByMismatch == scan.last.y >= 0 /\ ~scan.last.matched /\ scan.last.prev_runs # <<>>

\* C20: when row y does not match the open non-empty run-set started at row
\* s, the open set is the run-set of row s, every row from s + 1 to y - 1
\* matched it and row y does not; if y - s >= min_rows the round appends, in
\* the order of the runs, one box per run of the open set, from start * 0.48pt
\* to end * 0.48pt across and from s * 0.48pt to y * 0.48pt down, and nothing
\* else; and after the round the open set is the run-set of row y, started
\* at y.
C20_CloseOnMismatch ==
  (op = "_find_image_redactions" /\ ClosedByMismatch) =>
    LET s == scan.last.rect_start_y
        y == scan.last.y
        open == scan.last.prev_runs
    IN /\ s < y
       /\ open = scan.rows[s + 1]
       /\ \A r \in (s + 1)..(y - 1) : runs_match(scan.rows[r + 1], open, run_tolerance)
       /\ ~runs_match(scan.rows[y + 1], open, run_tolerance)
       /\ y - s >= min_rows =>
            /\ Len(scan.last.emitted) = Len(open)
            /\ \A i \in 1..Len(open) :
                 scan.last.emitted[i] =
                   RedactionBox(scan.page_num, open[i][1] * UnitsPerPx, s * UnitsPerPx,
                                open[i][2] * UnitsPerPx, y * UnitsPerPx)
       /\ scan.prev_runs = scan.rows[y + 1]
       /\ scan.rect_start_y = y
       /\ scan.out = SubSeq(scan.out, 1, Len(scan.out) - Len(scan.last.emitted))
                       \o scan.last.emitted

\* a set of two runs open for at least min_rows rows was closed by a row with
\* one run, and two boxes were appended
C20_Witness ==
  /\ op = "_find_image_redactions" /\ ClosedByMismatch
  /\ scan.last.y - scan.last.rect_start_y >= min_rows
  /\ Len(scan.last.prev_runs) = 2 /\ Len(scan.last.emitted) = 2
  /\ Len(scan.last.runs) = 1

(***************************************************************************)
(* Properties of the regions of _find_image_redactions.  A region is a     *)
(* maximal stretch of rows of one page that starts at an opening row and   *)
(* whose later rows all match the opening row's run-set.                   *)
(***************************************************************************)
\* the boxes appended so far for the page being scanned
PageBoxes == SelectSeq(scan.out, LAMBDA b : b.page = scan.page_num)

\* the rows [FirstRow, EndRow) a box covers
FirstRow(b) == b.bbox[2] \div UnitsPerPx
EndRow(b) == b.bbox[4] \div UnitsPerPx

\* the opening row of the region that row y belongs to, from the run-sets of
\* the rows alone: row 0 opens a region, and a row opens one when it does not
\* match the run-set of the opening row of the row above
RECURSIVE Opening(_, _)
Opening(rows, y) ==
  IF y = 0 THEN 0
  ELSE LET o == Opening(rows, y - 1)
       IN IF runs_match(rows[y + 1], rows[o + 1], run_tolerance) THEN o ELSE y

\* row r of the page being scanned is covered by one of its boxes
Covered(r) == \E i \in 1..Len(PageBoxes) : FirstRow(PageBoxes[i]) <= r /\ r < EndRow(PageBoxes[i])

\* C21: a region of fewer than min_rows rows produces no box and its rows are
\* not carried over: a round that closes such a region appends nothing and
\* restarts the count at its own row, and every box covers exactly one whole
\* region of at least min_rows rows, so the rows of a short region are in no
\* box even when the same run-set comes back after an interruption.
C21_ShortRegionsEmitNothing ==
  op = "_find_image_redactions" =>
    /\ (scan.last.y >= 0 /\ ~scan.last.matched
          /\ scan.last.y - scan.last.rect_start_y < min_rows) =>
         /\ scan.last.emitted = <<>>
         /\ scan.rect_start_y = scan.last.y
    /\ \A i \in 1..Len(PageBoxes) :
         LET s == FirstRow(PageBoxes[i])
             e == EndRow(PageBoxes[i])
         IN /\ e - s >= min_rows
            /\ e <= scan.y
            /\ \A r \in s..(e - 1) : Opening(scan.rows, r) = s
            /\ e < Len(scan.rows) => Opening(scan.rows, e) = e
            /\ e = Len(scan.rows) => scan.pc # "rows"

\* a run-set lasted fewer than min_rows rows, was interrupted, came back and
\* was emitted from the row where it came back; the rows of the short stretch
\* are in no box
C21_Witness ==
  /\ op = "_find_image_redactions"
  /\ \E i \in 1..Len(PageBoxes) :
       \E r \in 0..(FirstRow(PageBoxes[i]) - 1) :
         /\ scan.rows[r + 1] # <<>>
         /\ scan.rows[r + 1] = scan.rows[FirstRow(PageBoxes[i]) + 1]
         /\ ~Covered(r)
         /\ \E g \in (r + 1)..(FirstRow(PageBoxes[i]) - 1) : scan.rows[g + 1] = <<>>

\* the round just made found a row with no qualifying dark run
EmptyRow == scan.last.y >= 0 /\ scan.last.runs = <<>>

\* C22: a row with an empty run-set never matches the open run-set, empty or
\* not: its round closes the open region at that row (boxes, if any, end at
\* row y; an empty open set gives none) and leaves the open set empty with
\* start y; and no box covers a row whose run-set is empty.
C22_EmptyRowClosesRegion ==
  op = "_find_image_redactions" =>
    /\ EmptyRow =>
         /\ ~scan.last.matched
         /\ scan.prev_runs = <<>> /\ scan.rect_start_y = scan.last.y
         /\ Len(scan.last.emitted) =
              (IF scan.last.prev_runs # <<>>
                    /\ scan.last.y - scan.last.rect_start_y >= min_rows
               THEN Len(scan.last.prev_runs) ELSE 0)
         /\ \A i \in 1..Len(scan.last.emitted) :
              /\ EndRow(scan.last.emitted[i]) = scan.last.y
              /\ FirstRow(scan.last.emitted[i]) = scan.last.rect_start_y
    /\ (scan.last.y >= 0 /\ scan.last.prev_runs = <<>>) =>
         (scan.last.emitted = <<>> /\ (scan.last.matched => scan.last.runs # <<>>))
    /\ (scan.pc = "page_end" /\ scan.prev_runs = <<>>) => scan.closing = <<>>
    /\ \A i \in 1..Len(PageBoxes) :
         \A r \in FirstRow(PageBoxes[i])..(EndRow(PageBoxes[i]) - 1) :
           scan.rows[r + 1] # <<>>

\* an empty row follows an empty row further down a page on which an empty
\* row closed a region and a box ending at that row was appended
C22_Witness ==
  /\ op = "_find_image_redactions" /\ EmptyRow
  /\ scan.last.prev_runs = <<>> /\ scan.last.y >= 1
  /\ scan.last.rect_start_y = scan.last.y - 1
  /\ \E i \in 1..Len(PageBoxes) :
       /\ EndRow(PageBoxes[i]) < Len(scan.rows)
       /\ scan.rows[EndRow(PageBoxes[i]) + 1] = <<>>

\* the two run-sets have the same number of runs and corresponding runs are
\* at most 3 pixels apart in start and in end
SameCountWithinThree(a, b) ==
  /\ Len(a) = Len(b)
  /\ \A i \in 1..Len(a) :
       /\ a[i][1] - b[i][1] \in (0 - 3)..3
       /\ a[i][2] - b[i][2] \in (0 - 3)..3

\* C23: a row matches the open run-set exactly when its run-set is non-empty,
\* has as many runs as the open set and each run is within 3 pixels of the
\* corresponding run in start and in end; a row with another number of runs
\* closes the open region and opens its own at its row; so all rows covered
\* by one box have the same number of runs.
C23_MatchNeedsSameRunCount ==
  op = "_find_image_redactions" =>
    /\ scan.last.y >= 0 =>
         /\ scan.last.matched <=>
              (scan.last.runs # <<>>
                 /\ SameCountWithinThree(scan.last.runs, scan.last.prev_runs))
         /\ Len(scan.last.runs) # Len(scan.last.prev_runs) =>
              /\ ~scan.last.matched
              /\ scan.prev_runs = scan.last.runs
              /\ scan.rect_start_y = scan.last.y
              /\ \A i \in 1..Len(scan.last.emitted) :
                   EndRow(scan.last.emitted[i]) = scan.last.y
    /\ \A i \in 1..Len(PageBoxes) :
         \A r \in FirstRow(PageBoxes[i])..(EndRow(PageBoxes[i]) - 1) :
           Len(scan.rows[r + 1]) = Len(scan.rows[FirstRow(PageBoxes[i]) + 1])

\* a region of two runs is followed directly by a region of one run that
\* starts where one of the two runs was: both were emitted, each with its own
\* rows
C23_Witness ==
  /\ op = "_find_image_redactions"
  /\ \E i, j \in 1..Len(PageBoxes) :
       /\ EndRow(PageBoxes[i]) = FirstRow(PageBoxes[j])
       /\ Len(scan.rows[FirstRow(PageBoxes[i]) + 1]) = 2
       /\ Len(scan.rows[FirstRow(PageBoxes[j]) + 1]) = 1
       /\ scan.rows[FirstRow(PageBoxes[j]) + 1][1] = scan.rows[FirstRow(PageBoxes[i]) + 1][1]

\* C24: after the last row of every page the open run-set is closed by the
\* same rule: if it is non-empty, started at row s and h - s >= min_rows, one
\* box per run is appended, in order, from s * 0.48pt to h * 0.48pt down, and
\* otherwise nothing; every page starts with no open run-set and start row 0,
\* so the boxes of a page are those of its own raster alone and lie within
\* its rows.
C24_PageEndClosesAndResets ==
  op = "_find_image_redactions" =>
    /\ scan.pc = "page_end" =>
         /\ scan.y = PixHeight
         /\ scan.closing =
              (IF scan.prev_runs # <<>> /\ PixHeight - scan.rect_start_y >= min_rows
               THEN [i \in 1..Len(scan.prev_runs) |->
                       RedactionBox(scan.page_num,
                                    scan.prev_runs[i][1] * UnitsPerPx,
                                    scan.rect_start_y * UnitsPerPx,
                                    scan.prev_runs[i][2] * UnitsPerPx,
                                    PixHeight * UnitsPerPx)]
               ELSE <<>>)
         /\ Len(scan.closing) <= Len(PageBoxes)
         /\ SubSeq(PageBoxes, Len(PageBoxes) - Len(scan.closing) + 1, Len(PageBoxes))
              = scan.closing
         /\ PageBoxes = PageImageRedactions(scan.page_num, ScanPage)
    /\ (scan.pc = "rows" /\ scan.y = 0) =>
         (scan.prev_runs = <<>> /\ scan.rect_start_y = 0 /\ PageBoxes = <<>>)
    /\ scan.pc = "rows" => scan.rect_start_y <= scan.y
    /\ \A i \in 1..Len(scan.out) :
         /\ scan.out[i].page \in 0..scan.page_num
         /\ 0 <= scan.out[i].bbox[2] /\ scan.out[i].bbox[4] <= PageRectH
         /\ scan.out[i].page = scan.page_num => EndRow(scan.out[i]) <= scan.y

\* the second page has been scanned to its end: the page before ended with a
\* region that was closed at its last row, this page began with the same run
\* in row 0 and got a box of its own from row 0, and the region open at this
\* page's end is too short to give a box
C24_Witness ==
  /\ op = "_find_image_redactions" /\ scan.pc = "page_end" /\ scan.page_num = 1
  /\ scan.prev_runs # <<>> /\ scan.closing = <<>>
  /\ \E i, j \in 1..Len(scan.out) :
       /\ scan.out[i].page = 0 /\ EndRow(scan.out[i]) = PixHeight
       /\ scan.out[j].page = 1 /\ FirstRow(scan.out[j]) = 0
       /\ scan.out[i].bbox[1] = scan.out[j].bbox[1]
       /\ scan.out[i].bbox[3] = scan.out[j].bbox[3]

(***************************************************************************)
(* Properties of _get_dark_runs                                            *)
(***************************************************************************)
\* pixel x of the row scanned is strictly below the threshold
DarkAt(x) == scan.samples[scan.y * scan.width + x + 1] < scan.threshold

\* [a, b) is a maximal stretch of dark pixels of the row
MaximalDarkRun(a, b) ==
  /\ 0 <= a /\ a < b /\ b <= scan.width
  /\ \A x \in a..(b - 1) : DarkAt(x)
  /\ a = 0 \/ ~DarkAt(a - 1)
  /\ b = scan.width \/ ~DarkAt(b)

\* C25: the runs returned are exactly the maximal stretches [start, end) of
\* pixels strictly below the threshold that are at least min_width long, one
\* entry each, in ascending order with at least one pixel between two runs;
\* a stretch that reaches the right edge has end = width; shorter stretches
\* are left out and never joined to a neighbour.
C25_ExactlyTheLongMaximalRuns ==
  (op = "_get_dark_runs" /\ scan.pc = "returned") =>
    /\ Range(scan.runs) =
         {ab \in (0..scan.width) \X (0..scan.width) :
            MaximalDarkRun(ab[1], ab[2]) /\ ab[2] - ab[1] >= scan.min_width}
    /\ \A i \in 1..(Len(scan.runs) - 1) : scan.runs[i][2] < scan.runs[i + 1][1]

\* the row scanned is the second row of the raster under an all-dark first
\* row; two runs are returned, the second reaches the right edge, and a dark
\* stretch shorter than min_width between them is left out
C25_Witness ==
  /\ op = "_get_dark_runs" /\ scan.pc = "returned"
  /\ scan.y = 1 /\ scan.min_width >= 2 /\ scan.samples[1] = 0
  /\ Len(scan.runs) = 2 /\ scan.runs[2][2] = scan.width
  /\ \E x \in scan.runs[1][2]..(scan.runs[2][1] - 1) : DarkAt(x)

(***************************************************************************)
(* Properties of the size limits of _find_image_redactions                 *)
(***************************************************************************)
\* C26: a dark run is kept only if its length in points (pixels * scale_x)
\* is at least min_width_pt, and every box returned by the raster scanner is
\* at least min_width_pt (15pt) wide and min_height_pt (5pt) high.
C26_RasterMinimumSize ==
  op = "_find_image_redactions" =>
    /\ \A r \in 1..Len(scan.rows) : \A i \in 1..Len(scan.rows[r]) :
         (scan.rows[r][i][2] - scan.rows[r][i][1]) * (ScanPage.rect_w \div PixWidth)
           >= min_width_pt * UnitsPerPt
    /\ scan.pc = "done" =>
         \A i \in 1..Len(scan.results) :
           /\ BoxWidth(scan.results[i]) >= min_width_pt * UnitsPerPt
           /\ BoxHeight(scan.results[i]) >= min_height_pt * UnitsPerPt

(***************************************************************************)
(* Properties of the stored run-set                                        *)
(***************************************************************************)
\* the boxes of the page being scanned that start at row s
BoxesFrom(s) == SelectSeq(PageBoxes, LAMBDA b : FirstRow(b) = s)

\* C27: the stored run-set is that of the row that opened the region; a
\* matching row leaves it and the start row as they are.  So every row inside
\* an emitted region is within 3 pixels of the opening row's runs, and the
\* boxes of a region are, in order, the opening row's runs from start * 0.48pt
\* to end * 0.48pt.
C27_StoredRunSetIsOpeningRow ==
  op = "_find_image_redactions" =>
    /\ scan.last.y >= 0 =>
         /\ scan.prev_runs = scan.rows[scan.rect_start_y + 1]
         /\ scan.last.matched =>
              /\ scan.prev_runs = scan.last.prev_runs
              /\ scan.rect_start_y = scan.last.rect_start_y
              /\ scan.last.emitted = <<>>
    /\ \A i \in 1..Len(PageBoxes) :
         LET s == FirstRow(PageBoxes[i])
             opening == scan.rows[s + 1]
         IN /\ \A r \in s..(EndRow(PageBoxes[i]) - 1) :
                 SameCountWithinThree(scan.rows[r + 1], opening)
            /\ Len(BoxesFrom(s)) = Len(opening)
            /\ \A k \in 1..Len(opening) :
                 /\ BoxesFrom(s)[k].bbox[1] = opening[k][1] * UnitsPerPx
                 /\ BoxesFrom(s)[k].bbox[3] = opening[k][2] * UnitsPerPx

\* a region was emitted whose last row is shifted by 3 pixels against its
\* opening row; the row that closed it is within 3 pixels of that last row
\* but 4 pixels from the opening row
C27_Witness ==
  /\ op = "_find_image_redactions"
  /\ \E i \in 1..Len(PageBoxes) :
       LET s == FirstRow(PageBoxes[i])
           e == EndRow(PageBoxes[i])
       IN /\ e < Len(scan.rows)
          /\ scan.rows[e][1][1] - scan.rows[s + 1][1][1] = 3
          /\ SameCountWithinThree(scan.rows[e + 1], scan.rows[e])
          /\ scan.rows[e + 1][1][1] - scan.rows[s + 1][1][1] = 4
          /\ PageBoxes[i].bbox[1] = scan.rows[s + 1][1][1] * UnitsPerPx

(***************************************************************************)
(* Properties of the list of boxes of _find_image_redactions               *)
(***************************************************************************)
\* box a comes before box b in the order of emission of one page: either
\* both are of one region, a to the left of b, or a's region ends before
\* b's begins
EmittedBefore(a, b) ==
  \/ /\ a.bbox[2] = b.bbox[2] /\ a.bbox[4] = b.bbox[4]
     /\ a.bbox[3] <= b.bbox[1]
  \/ a.bbox[4] <= b.bbox[2]

\* C28: the boxes are appended page by page; within a page the regions have
\* pairwise disjoint row intervals and come in ascending order of start row,
\* the boxes of one region have the same vertical extent and pairwise
\* disjoint horizontal extents in ascending order, and every box lies inside
\* the page rectangle with x0 < x1 and y0 < y1.  The same holds for the list
\* returned after the height filter.
C28_BoxesOrderedDisjointInPage ==
  op = "_find_image_redactions" =>
    /\ \A i, j \in 1..Len(scan.out) :
         i < j =>
           /\ scan.out[i].page <= scan.out[j].page
           /\ scan.out[i].page = scan.out[j].page => EmittedBefore(scan.out[i], scan.out[j])
    /\ \A i \in 1..Len(scan.out) :
         /\ 0 <= scan.out[i].bbox[1] /\ scan.out[i].bbox[1] < scan.out[i].bbox[3]
         /\ scan.out[i].bbox[3] <= PageRectW
         /\ 0 <= scan.out[i].bbox[2] /\ scan.out[i].bbox[2] < scan.out[i].bbox[4]
         /\ scan.out[i].bbox[4] <= PageRectH
    /\ \A i, j \in 1..Len(scan.results) :
         i < j =>
           /\ scan.results[i] \in Range(scan.out)
           /\ scan.results[i].page <= scan.results[j].page
           /\ scan.results[i].page = scan.results[j].page
                => EmittedBefore(scan.results[i], scan.results[j])

\* the scan has returned three boxes of one page: one region, and below it a
\* region of two runs that reaches the last row of the page
C28_Witness ==
  /\ op = "_find_image_redactions" /\ scan.pc = "done"
  /\ Len(scan.out) = 3 /\ Len(scan.results) = 2
  /\ scan.out[1].bbox[4] < scan.out[2].bbox[2]
  /\ scan.out[2].bbox[2] = scan.out[3].bbox[2]
  /\ scan.out[2].bbox[3] < scan.out[3].bbox[1]
  /\ scan.out[3].bbox[4] = PageRectH

(***************************************************************************)
(* Properties of concurrent ensure_in_cache and fetch_pdf calls            *)
(***************************************************************************)
\* the call has returned normally
CallReturned(c) == c.pc = "done"

\* C29: in every interleaving of the calls' steps, a call uploads only the
\* bytes of its own successful download and at most once; a call whose
\* download failed has uploaded nothing, and what the store holds under the
\* URL's blob path is always the object it held at the start or bytes
\* uploaded by a call whose download succeeded, every other object being
\* untouched; once a call has returned, the object is in the store (no step
\* removes it); a call downloads only if its own existence test found no
\* object, so the race can only make several calls download and upload the
\* same blob.
C29_ConcurrentCallsKeepTheCache ==
  op = "concurrent" =>
    /\ \A i \in 1..NumCalls :
         LET c == net.calls[i]
         IN /\ c.uploaded # None => (c.uploaded = c.got /\ c.got # None /\ CallReturned(c))
            /\ c.pc = "raised" => (c.uploaded = None /\ c.got = None)
            /\ c.got # None => ~c.found
            /\ (CallReturned(c) /\ ~c.found) => c.uploaded = c.got
            /\ (CallReturned(c) /\ c.result = "bytes") =>
                 (IF c.found THEN c.bytes \in
                                    {o.data : o \in Cached(net.initial)}
                                      \cup {net.calls[j].uploaded : j \in 1..NumCalls}
                  ELSE c.bytes = c.got)
    /\ (\E i \in 1..NumCalls : CallReturned(net.calls[i])) => Cached(net.objects) # {}
    /\ Cached(net.initial) # {} =>
         (net.objects = net.initial /\ \A i \in 1..NumCalls : net.calls[i].got = None)
    /\ net.objects \ Cached(net.objects) = net.initial \ Cached(net.initial)
    /\ Cached(net.objects) \subseteq
         Cached(net.initial)
           \cup {StoredObject(net.bucket, net.blob_path, net.calls[i].uploaded) :
                   i \in {j \in 1..NumCalls : net.calls[j].uploaded # None}}
    /\ Cardinality(Cached(net.objects)) <= 1

\* two calls both missed, both downloaded and both uploaded, with different
\* bytes: fetch_pdf returned what it downloaded and the store holds what the
\* other call uploaded after it
C29_Witness ==
  /\ op = "concurrent"
  /\ \E i, j \in 1..NumCalls :
       /\ i # j
       /\ CallReturned(net.calls[i]) /\ CallReturned(net.calls[j])
       /\ net.calls[i].op = "fetch_pdf" /\ net.calls[j].op = "ensure_in_cache"
       /\ net.calls[i].uploaded = "pdfA" /\ net.calls[j].uploaded = "pdfB"
       /\ net.calls[i].bytes = "pdfA"
       /\ \E o \in Cached(net.objects) : o.data = "pdfB"

(***************************************************************************)
(* Properties of the cache key                                             *)
(***************************************************************************)
\* the hostname and the percent-decoded path without leading slashes
HostAndPath(url) ==
  With(urlparse(url), LAMBDA parsed :
    <<parsed.hostname, LStripChars(unquote(parsed.path), {"/"})>>)

SameKey == url_to_blob_path(net.url) = url_to_blob_path(net.other)

\* the objects stored in the bucket under a blob path
StoredUnder(objects, blob_path) ==
  {o \in objects : o.bucket = TestBucket /\ o.name = blob_path}

\* C30: two valid URLs have the same blob path exactly when they have the
\* same hostname and the same percent-decoded path without leading slashes,
\* whatever their scheme, port, query and fragment.  After a call for one of
\* them has returned, fetch_pdf for the other sends no request, leaves the
\* store alone and returns the bytes stored under that path, which are the
\* bytes the first call returned if it was a fetch_pdf; with different blob
\* paths the second call leaves the first URL's object alone.
C30_KeyIsHostAndDecodedPath ==
  (op \in {"ensure_in_cache", "fetch_pdf"} /\ net.other # <<>>) =>
    With(<<url_to_blob_path(net.url), url_to_blob_path(net.other)>>, LAMBDA key :
      /\ key[1] = key[2] <=> HostAndPath(net.url) = HostAndPath(net.other)
      /\ (net.call = 2 /\ key[1] = key[2]) =>
           /\ pc \in {"start", "exists", "done"}
           /\ net.http = <<>> /\ net.clients = 0
           /\ net.objects = net.previous.objects
           /\ StoredUnder(net.objects, key[2]) # {}
           /\ pc = "done" =>
                /\ \E o \in StoredUnder(net.previous.objects, key[2]) :
                     net.result.bytes = o.data
                /\ net.previous.bytes # None => net.result.bytes = net.previous.bytes
      /\ (net.call = 2 /\ key[1] # key[2]) =>
           /\ StoredUnder(net.objects, key[2]) = StoredUnder(net.previous.objects, key[2])
           /\ (pc = "done" /\ StoredUnder(net.previous.objects, key[1]) = {}) =>
                (net.http # <<>> /\ net.result.bytes = net.data))

\* fetch_pdf has downloaded and stored pdfA for an https URL, and fetch_pdf
\* for an http URL with another spelling of the host, a port, a query and a
\* fragment has returned pdfA without any request
C30_Witness ==
  /\ op = "fetch_pdf" /\ pc = "done" /\ net.call = 2 /\ net.other # <<>>
  /\ SameKey /\ net.url # net.other
  /\ net.previous.bytes = "pdfA" /\ net.result.bytes = "pdfA"
  /\ urlparse(net.url).scheme # urlparse(net.other).scheme
  /\ urlparse(net.url).query # <<>> /\ urlparse(net.url).fragment # <<>>
  /\ urlparse(net.url).netloc # urlparse(net.other).netloc

====
